---- MODULE Spec2Model ----
(***************************************************************************)
(* A model of the bike-crash / Citibike pricing pipeline:                  *)
(*   datasets/bike_crash_dataset.py   BikeCrashDataset                     *)
(*   datasets/citibike_dataset.py     CitibikeDataset                      *)
(*   modeling/price_calculator.py     PriceCalculator                      *)
(*   modeling/density_estimator.py    DensityEstimator                     *)
(*                                                                         *)
(* Tables (pandas DataFrames) are records [cols, rows]: cols is the set of *)
(* column names, rows a sequence of [idx, cell] where idx is the pandas    *)
(* index label of the row and cell maps each column to a cell.  A cell is  *)
(* NA (a missing value: NaN, None, NaT) or V(v).  Text is a tuple of       *)
(* one-character strings, so that lower(), contains(), endswith() and      *)
(* split(':') are computed character by character.                         *)
(*                                                                         *)
(* Numbers are integers.  Where the code produces halves or quotients the  *)
(* model keeps the value scaled by a stated factor (time centres by 2,     *)
(* spatial centres by 2*bins) or as a fraction <<num, den>>.               *)
(***************************************************************************)
EXTENDS Integers, Sequences, FiniteSets, TLC

VARIABLES
    crash_file,     \* the CSV handed to BikeCrashDataset(path), as a table
    df,             \* BikeCrashDataset.df
    crash_pc,       \* "new" | "constructed" | "raised"
    crash_exc,      \* the exception the last BikeCrashDataset call raised, or "none"
    processed,      \* whether __init__ ran _process_dataset
    citibike,       \* the citibike dataset of the same area (x_center, y_center, stations)
    call,           \* the last BikeCrashDataset method call and its arguments
    ret             \* what that call returned (a raster), or NoRet

crash_vars == <<crash_file, df, crash_pc, crash_exc, processed, citibike, call, ret>>

VARIABLES
    fs,             \* what lies at the path handed to CitibikeDataset(path)
    citi_pc,        \* where __init__ stands: "new" | "extract" | "load" | "loaded" |
                    \* "done" | "raised"
    citi_exc,       \* the exception __init__ raised, or "none"
    todo,           \* the files the running os.walk loop has still to visit
    df_list,        \* the tables read so far from a directory
    loaded,         \* the local df: the loaded input
    df_rides,       \* CitibikeDataset.df_rides (None before it is assigned)
    dropped_rows,   \* CitibikeDataset.dropped_rows
    stations,       \* CitibikeDataset.stations
    duration_mean,  \* CitibikeDataset.duration_mean, a fraction (NA: None or NaN)
    duration_std,   \* CitibikeDataset.duration_std, kept as its square, a fraction
    x_center,       \* CitibikeDataset.x_center, a fraction
    y_center,       \* CitibikeDataset.y_center, a fraction
    price_call,     \* the last predict_insurance_price call: its arguments
    price_ret       \* what that call returned or raised

citi_vars == <<fs, citi_pc, citi_exc, todo, df_list, loaded, df_rides, dropped_rows,
               stations, duration_mean, duration_std, x_center, y_center,
               price_call, price_ret>>

\* the attributes computed from the cleaned rides
citi_stats == <<duration_mean, duration_std, x_center, y_center>>

VARIABLES
    estimator,      \* a DensityEstimator: data, x_min, x_max, y_min, y_max
    numerator,      \* a second DensityEstimator, the numerator of a normalization
    dens_call,      \* the last DensityEstimator method call and its arguments
    dens_ret,       \* what that call returned
    hist_locals,    \* the histograms that call computed as locals, or None
    plotted         \* what that call handed to plot_heatmap, or None

dens_vars == <<estimator, numerator, dens_call, dens_ret, hist_locals, plotted>>

VARIABLES
    calculator,     \* a PriceCalculator: its time_bin_size
    minute,         \* a time of day in minutes since midnight, 0..1439
    time_ret        \* what the calculator and the raster made of that minute

time_vars == <<calculator, minute, time_ret>>

vars == <<crash_vars, citi_vars, dens_vars, time_vars>>

-----------------------------------------------------------------------------
(* Bounds of the model *)

\* rows of a raw NYPD crash file
MaxRawRows == 2
\* rows of an already preprocessed crash file
MaxRows == 3
\* largest value of the bins argument
MaxBins == 2
\* rides in a Citibike CSV file given as the path
MaxRides == 3
\* files in a directory given as the path
MaxEntries == 2
\* points of the data of a DensityEstimator
MaxPoints == 2
\* largest value of the grid_size argument
MaxGrid == 2

-----------------------------------------------------------------------------
(* Cells and text *)

NA == <<>>

V(v) == <<v>>

IsNA(c) == c = NA

Val(c) == c[1]

Upper == <<"A","B","C","D","E","F","G","H","I","J","K","L","M",
           "N","O","P","Q","R","S","T","U","V","W","X","Y","Z">>

LowerAlpha == <<"a","b","c","d","e","f","g","h","i","j","k","l","m",
                "n","o","p","q","r","s","t","u","v","w","x","y","z">>

\* str.lower() on one character
LowerChar(c) ==
    IF \E k \in 1..26 : Upper[k] = c
    THEN LowerAlpha[CHOOSE k \in 1..26 : Upper[k] = c]
    ELSE c

\* str.lower()
Lower(s) == [i \in 1..Len(s) |-> LowerChar(s[i])]

\* pat occurs in s as a substring
Contains(s, pat) ==
    \E i \in 1..(Len(s) - Len(pat) + 1) : SubSeq(s, i, i + Len(pat) - 1) = pat

\* str.endswith(suffix)
EndsWith(s, suffix) ==
    /\ Len(s) >= Len(suffix)
    /\ SubSeq(s, Len(s) - Len(suffix) + 1, Len(s)) = suffix

\* Series.astype(str) on one cell: a missing value becomes the text 'nan'
AsStr(c) == IF IsNA(c) THEN <<"n","a","n">> ELSE Val(c)

Digits == <<"0","1","2","3","4","5","6","7","8","9">>

IsDigit(c) == \E k \in 1..10 : Digits[k] = c

DigitVal(c) == (CHOOSE k \in 1..10 : Digits[k] = c) - 1

\* int(s) for a text of decimal digits; callers check IsIntText first
RECURSIVE IntOf(_)
IntOf(s) ==
    IF Len(s) = 0 THEN 0
    ELSE 10 * IntOf(SubSeq(s, 1, Len(s) - 1)) + DigitVal(s[Len(s)])

\* int(s) does not raise ValueError
IsIntText(s) == Len(s) > 0 /\ \A i \in 1..Len(s) : IsDigit(s[i])

\* the positions of ':' in s
ColonsOf(s) == {i \in 1..Len(s) : s[i] = ":"}

\* time_to_minutes(time_str) completes: split(':') gives two parts, both ints
TimeParses(c) ==
    /\ ~IsNA(c)
    /\ Cardinality(ColonsOf(Val(c))) = 1
    /\ LET s == Val(c)
           k == CHOOSE i \in ColonsOf(s) : TRUE
       IN  IsIntText(SubSeq(s, 1, k - 1)) /\ IsIntText(SubSeq(s, k + 1, Len(s)))

\* time_to_minutes: hour * 60 + minute
time_to_minutes(c) ==
    LET s == Val(c)
        k == CHOOSE i \in ColonsOf(s) : TRUE
    IN  IntOf(SubSeq(s, 1, k - 1)) * 60 + IntOf(SubSeq(s, k + 1, Len(s)))

-----------------------------------------------------------------------------
(* Tables *)

EmptyTable == [cols |-> {}, rows |-> <<>>]

\* pd.read_csv: the rows of the file in order under a fresh RangeIndex 0..n-1
read_csv(file) ==
    [cols |-> file.cols,
     rows |-> [i \in 1..Len(file.rows) |-> [idx |-> i - 1, cell |-> file.rows[i]]]]

\* df[mask]: the rows whose mask entry is True, in order, index labels kept;
\* mask is the set of the positions where it is True
Filter(t, mask) ==
    LET Pos(r) == CHOOSE k \in 1..Len(t.rows) : t.rows[k] = r
        keep(r) == Pos(r) \in mask
    IN  [t EXCEPT !.rows = SelectSeq(t.rows, keep)]

\* the index labels of a table
Index(t) == {t.rows[i].idx : i \in 1..Len(t.rows)}

\* the row with index label i
RowAt(t, i) == t.rows[CHOOSE k \in 1..Len(t.rows) : t.rows[k].idx = i]

-----------------------------------------------------------------------------
(* BikeCrashDataset: columns *)

REQUIRED_COLUMNS ==
    {"CRASH DATE", "CRASH TIME", "LATITUDE", "LONGITUDE", "CRASH_DATETIME", "x", "y"}

essential_cols == {"CRASH DATE", "CRASH TIME", "LATITUDE", "LONGITUDE"}

vehicle_cols ==
    {"VEHICLE TYPE CODE 1", "VEHICLE TYPE CODE 2", "VEHICLE TYPE CODE 3",
     "VEHICLE TYPE CODE 4", "VEHICLE TYPE CODE 5"}

\* a plausible slip: some required column present, in place of all of them
has_required_columns_any(t) == REQUIRED_COLUMNS \cap t.cols # {}

\* _has_required_columns: REQUIRED_COLUMNS.issubset(self.df.columns)
has_required_columns(t) == REQUIRED_COLUMNS \subseteq t.cols

-----------------------------------------------------------------------------
(* BikeCrashDataset._process_dataset *)

\* self.df.get(col, 0) > 0 for one row: the scalar 0 when the column is absent,
\* and NaN > 0 is False
cyclist_gt0(t, col, r) ==
    IF col \in t.cols
    THEN ~IsNA(r.cell[col]) /\ Val(r.cell[col]) > 0
    ELSE 0 > 0

condition_cyclist(t, r) ==
    \/ cyclist_gt0(t, "NUMBER OF CYCLIST INJURED", r)
    \/ cyclist_gt0(t, "NUMBER OF CYCLIST KILLED", r)

\* a plausible slip: the match without str.lower()
contains_bic_bik_case_sensitive(c) ==
    LET s == AsStr(c)
    IN  Contains(s, <<"b","i","c">>) \/ Contains(s, <<"b","i","k">>)

\* astype(str).str.lower().str.contains('bic|bik', na=False) for one cell
contains_bic_bik(c) ==
    LET s == Lower(AsStr(c))
    IN  Contains(s, <<"b","i","c">>) \/ Contains(s, <<"b","i","k">>)

\* any(axis=1) over the vehicle columns the file has; all False when it has none
vehicle_condition(t, r) ==
    \E col \in vehicle_cols \cap t.cols : contains_bic_bik(r.cell[col])

combined_condition(t, r) == condition_cyclist(t, r) \/ vehicle_condition(t, r)

\* dropna(subset=essential_cols) for one row
essential_present(r) == \A col \in essential_cols : ~IsNA(r.cell[col])

\* (LATITUDE != 0) & (LONGITUDE != 0) for one row
nonzero_position(r) ==
    Val(r.cell["LATITUDE"]) # 0 /\ Val(r.cell["LONGITUDE"]) # 0

\* pd.to_datetime(date + ' ' + time, errors='coerce') for one row: the date text
\* with the minute of the day, NaT when the time does not parse
to_datetime(date, time) ==
    IF TimeParses(time)
    THEN V([date |-> Val(date), minute |-> time_to_minutes(time)])
    ELSE NA

\* EPSG:4326 -> EPSG:3857 on whole degrees, in metres:
\* x = R * lon * pi / 180, y = R * ln(tan(pi/4 + lat * pi / 360)), R = 6378137
transform_x(lon) == 111319 * lon

transform_y(lat) ==
    CASE lat = 40 -> 4865942
      [] lat = 41 -> 5012342
      [] lat = 42 -> 5160979
      [] OTHER    -> 110580 * lat

\* lines 70-84: the derived columns, then the projection to the seven columns
with_derived_columns(t) ==
    [cols |-> REQUIRED_COLUMNS,
     rows |-> [i \in 1..Len(t.rows) |->
        LET c == t.rows[i].cell
        IN  [idx  |-> t.rows[i].idx,
             cell |-> [col \in REQUIRED_COLUMNS |->
                CASE col = "CRASH_DATETIME" ->
                        to_datetime(c["CRASH DATE"], c["CRASH TIME"])
                  [] col = "x" -> V(transform_x(Val(c["LONGITUDE"])))
                  [] col = "y" -> V(transform_y(Val(c["LATITUDE"])))
                  [] OTHER -> c[col]]]]]

\* the rows _process_dataset keeps: the three filters in the order of the code
bike_crash_rows(t) ==
    LET t1 == Filter(t, {k \in 1..Len(t.rows) : combined_condition(t, t.rows[k])})
        t2 == Filter(t1, {k \in 1..Len(t1.rows) : essential_present(t1.rows[k])})
    IN  Filter(t2, {k \in 1..Len(t2.rows) : nonzero_position(t2.rows[k])})

\* _process_dataset: [exc, df]; dropna(subset=...) raises KeyError when an
\* essential column is absent, after self.df was already filtered at line 61
process_dataset(t) ==
    IF ~(essential_cols \subseteq t.cols)
    THEN [exc |-> "KeyError",
          df  |-> Filter(t, {k \in 1..Len(t.rows) : combined_condition(t, t.rows[k])})]
    ELSE [exc |-> "none", df |-> with_derived_columns(bike_crash_rows(t))]

\* __init__: read_csv, then _process_dataset unless the columns are there
crash_init(file) ==
    LET t == read_csv(file)
    IN  IF has_required_columns(t)
        THEN [exc |-> "none", df |-> t, processed |-> FALSE]
        ELSE [exc |-> process_dataset(t).exc, df |-> process_dataset(t).df,
              processed |-> TRUE]

-----------------------------------------------------------------------------
(* BikeCrashDataset.citibike_alignment *)

\* Series.min() / max() skip missing values; NA for an empty or all-NA column
ColValues(t, col) ==
    {Val(t.rows[i].cell[col]) : i \in {k \in 1..Len(t.rows) : ~IsNA(t.rows[k].cell[col])}}

SetMin(S) == CHOOSE m \in S : \A v \in S : m <= v

SetMax(S) == CHOOSE m \in S : \A v \in S : m >= v

ColMin(t, col) == IF ColValues(t, col) = {} THEN NA ELSE V(SetMin(ColValues(t, col)))

ColMax(t, col) == IF ColValues(t, col) = {} THEN NA ELSE V(SetMax(ColValues(t, col)))

\* a - b on cells: NaN when either is missing
Minus(a, b) == IF IsNA(a) \/ IsNA(b) THEN NA ELSE V(Val(a) - Val(b))

\* a >= b on cells: False when either is missing
Ge(a, b) == ~IsNA(a) /\ ~IsNA(b) /\ Val(a) >= Val(b)

\* a <= b on cells: False when either is missing
Le(a, b) == ~IsNA(a) /\ ~IsNA(b) /\ Val(a) <= Val(b)

\* lines 95-96: the two centred columns are added (or overwritten)
with_centered(t, c) ==
    [cols |-> t.cols \cup {"x_centered", "y_centered"},
     rows |-> [i \in 1..Len(t.rows) |->
        [idx  |-> t.rows[i].idx,
         cell |-> [col \in t.cols \cup {"x_centered", "y_centered"} |->
            CASE col = "x_centered" -> Minus(t.rows[i].cell["x"], V(c.x_center))
              [] col = "y_centered" -> Minus(t.rows[i].cell["y"], V(c.y_center))
              [] OTHER -> t.rows[i].cell[col]]]]]

\* a >= b and a # b on cells
Gt(a, b) == ~IsNA(a) /\ ~IsNA(b) /\ Val(a) > Val(b)

\* a plausible slip: the box taken without its border
in_station_box_strict(r, c) ==
    /\ Gt(r.cell["x_centered"], ColMin(c.stations, "x_centered"))
    /\ Gt(ColMax(c.stations, "x_centered"), r.cell["x_centered"])
    /\ Gt(r.cell["y_centered"], ColMin(c.stations, "y_centered"))
    /\ Gt(ColMax(c.stations, "y_centered"), r.cell["y_centered"])

\* lines 103-107: the mask of one row
in_station_box(r, c) ==
    /\ Ge(r.cell["x_centered"], ColMin(c.stations, "x_centered"))
    /\ Le(r.cell["x_centered"], ColMax(c.stations, "x_centered"))
    /\ Ge(r.cell["y_centered"], ColMin(c.stations, "y_centered"))
    /\ Le(r.cell["y_centered"], ColMax(c.stations, "y_centered"))

\* citibike_alignment(citibike_dataset): the new self.df
citibike_alignment(t, c) ==
    LET t1 == with_centered(t, c)
    IN  Filter(t1, {k \in 1..Len(t1.rows) : in_station_box(t1.rows[k], c)})

-----------------------------------------------------------------------------
(* BikeCrashDataset.spatio_temporal_rasterization *)

NoRet == [exc |-> "none", rows |-> <<>>, kind |-> "None"]

RECURSIVE OddPart(_)
OddPart(n) == IF n % 2 = 0 THEN OddPart(n \div 2) ELSE n

\* (max - min) / bins is not a binary fraction, so x_bin_size is a rounded float
inexact_bin_size(d, bins) == d % OddPart(bins) # 0

\* ((v - lo) // bin_size).astype(int) with bin_size = d / bins and d > 0.
\* The quotient is computed exactly, except for a value lying exactly on a bin
\* edge when bin_size was rounded up (round_up): floor division then yields the
\* bin below.  Which way an inexact bin_size rounds is left open.
bin_of(v, lo, d, bins, round_up) ==
    LET q == ((v - lo) * bins) \div d
        on_edge == ((v - lo) * bins) % d = 0
    IN  IF round_up /\ on_edge /\ q >= 1 THEN q - 1 ELSE q

\* (time_numeric // time_bin_size).astype(int)
time_bin_of(minutes, time_bin_size) == minutes \div time_bin_size

\* time_bin * time_bin_size + time_bin_size / 2, times 2
time_center2(time_bin, time_bin_size) == 2 * time_bin * time_bin_size + time_bin_size

\* lo + (bin + 0.5) * (d / bins), times 2 * bins
space_center2b(bin, lo, d, bins) == 2 * bins * lo + (2 * bin + 1) * d

\* lexicographic order of the group keys (groupby sorts its keys)
KeyLess(a, b) ==
    \/ a[1] < b[1]
    \/ a[1] = b[1] /\ a[2] < b[2]
    \/ a[1] = b[1] /\ a[2] = b[2] /\ a[3] < b[3]

RECURSIVE SortKeys(_)
SortKeys(S) ==
    IF S = {} THEN <<>>
    ELSE LET m == CHOOSE a \in S : \A b \in S \ {a} : KeyLess(a, b)
         IN  <<m>> \o SortKeys(S \ {m})

\* a plausible slip: ['CRASH TIME'].nunique() in place of size()
group_size_nunique(t, rowkeys, k) ==
    Cardinality({t.rows[i].cell["CRASH TIME"] :
                    i \in {j \in 1..Len(t.rows) : rowkeys[j] = k}})

\* groupby([...]).size() for one group: the number of rows with that key
group_size(t, rowkeys, k) ==
    Cardinality({i \in 1..Len(t.rows) : rowkeys[i] = k})

\* lines 133-152 for a table with at least one row, no missing coordinate and
\* max > min on both axes
raster_rows(t, bins, time_bin_size, rx, ry) ==
    LET min_x == SetMin(ColValues(t, "x_centered"))
        max_x == SetMax(ColValues(t, "x_centered"))
        min_y == SetMin(ColValues(t, "y_centered"))
        max_y == SetMax(ColValues(t, "y_centered"))
        key(r) == << bin_of(Val(r.cell["x_centered"]), min_x, max_x - min_x, bins, rx),
                     bin_of(Val(r.cell["y_centered"]), min_y, max_y - min_y, bins, ry),
                     time_bin_of(time_to_minutes(r.cell["CRASH TIME"]), time_bin_size) >>
        rowkeys == [i \in 1..Len(t.rows) |-> key(t.rows[i])]
        keys == SortKeys({rowkeys[i] : i \in 1..Len(t.rows)})
    IN  [g \in 1..Len(keys) |->
            [x_center    |-> space_center2b(keys[g][1], min_x, max_x - min_x, bins),
             y_center    |-> space_center2b(keys[g][2], min_y, max_y - min_y, bins),
             time_center |-> time_center2(keys[g][3], time_bin_size),
             crash_count |-> group_size(t, rowkeys, keys[g])]]

\* spatio_temporal_rasterization(bins, time_bin_size): [exc, rows, kind].
\* x_center and y_center are kept times 2 * bins, time_center times 2.
spatio_temporal_rasterization(t, bins, time_bin_size, rx, ry) ==
    IF "CRASH TIME" \notin t.cols
    THEN [NoRet EXCEPT !.exc = "KeyError"]
    ELSE IF \E i \in 1..Len(t.rows) : ~TimeParses(t.rows[i].cell["CRASH TIME"])
    THEN [NoRet EXCEPT !.exc = "ValueError"]
    ELSE IF ~({"x_centered", "y_centered"} \subseteq t.cols)
    THEN [NoRet EXCEPT !.exc = "KeyError"]
    ELSE IF Len(t.rows) = 0
    THEN [exc |-> "none", rows |-> <<>>, kind |-> "raster"]
    ELSE IF \/ \E i \in 1..Len(t.rows) : IsNA(t.rows[i].cell["x_centered"])
            \/ \E i \in 1..Len(t.rows) : IsNA(t.rows[i].cell["y_centered"])
            \/ Cardinality(ColValues(t, "x_centered")) = 1
            \/ Cardinality(ColValues(t, "y_centered")) = 1
    THEN \* 0 // 0.0 is NaN and astype(int) refuses it
         [NoRet EXCEPT !.exc = "IntCastingNaNError"]
    ELSE [exc |-> "none", rows |-> raster_rows(t, bins, time_bin_size, rx, ry),
          kind |-> "raster"]

\* the rounding choices a call can meet
rounding_possible(t, bins, rx, ry) ==
    LET xs == ColValues(t, "x_centered")
        ys == ColValues(t, "y_centered")
    IN  /\ rx => /\ "x_centered" \in t.cols /\ xs # {}
                 /\ inexact_bin_size(SetMax(xs) - SetMin(xs), bins)
        /\ ry => /\ "y_centered" \in t.cols /\ ys # {}
                 /\ inexact_bin_size(SetMax(ys) - SetMin(ys), bins)

-----------------------------------------------------------------------------
(* Inputs of the BikeCrashDataset model *)

Date1 == <<"0","1","/","0","1","/","2","0","2","3">>

T1000 == <<"1","0",":","0","0">>

T1005 == <<"1","0",":","0","5">>

T1010 == <<"1","0",":","1","0">>

T100500 == <<"1","0",":","0","5",":","0","0">>

Sedan == <<"S","e","d","a","n">>

Bike == <<"B","i","k","e">>

EBicycle == <<"E","-","B","I","C","Y","C","L","E">>

BigRig == <<"B","i","g"," ","r","i","g">>

RawCols == essential_cols \cup
    {"NUMBER OF CYCLIST INJURED", "NUMBER OF CYCLIST KILLED",
     "VEHICLE TYPE CODE 1", "VEHICLE TYPE CODE 2"}

RawRow(date, time, lat, lon, injured, killed, v1, v2) ==
    [col \in RawCols |->
        CASE col = "CRASH DATE" -> date
          [] col = "CRASH TIME" -> time
          [] col = "LATITUDE" -> lat
          [] col = "LONGITUDE" -> lon
          [] col = "NUMBER OF CYCLIST INJURED" -> injured
          [] col = "NUMBER OF CYCLIST KILLED" -> killed
          [] col = "VEHICLE TYPE CODE 1" -> v1
          [] col = "VEHICLE TYPE CODE 2" -> v2]

\* rows of raw NYPD files: bike crashes by each criterion, near misses, and bike
\* crashes lacking one essential value or lying at latitude or longitude 0
RawPool ==
    { RawRow(V(Date1), V(T1000), V(40), V(-74), V(1), V(0), V(Sedan), NA),
      RawRow(V(Date1), V(T1005), V(41), V(-75), V(0), V(0), V(BigRig), NA),
      RawRow(V(Date1), V(T1005), V(41), V(-75), V(0), V(1), V(Sedan), NA),
      RawRow(V(Date1), V(T1010), V(42), V(-76), V(0), V(0), V(Bike), NA),
      RawRow(V(Date1), V(T1005), V(41), V(-75), NA, V(0), V(Sedan), V(EBicycle)),
      RawRow(NA, V(T1000), V(40), V(-74), V(1), V(0), V(Bike), NA),
      RawRow(V(Date1), NA, V(40), V(-74), V(1), V(0), V(Bike), NA),
      RawRow(V(Date1), V(T1000), NA, V(-74), V(1), V(0), V(Bike), NA),
      RawRow(V(Date1), V(T1000), V(40), NA, V(1), V(0), V(Bike), NA),
      RawRow(V(Date1), V(T1000), V(0), V(-74), V(1), V(0), V(Bike), NA),
      RawRow(V(Date1), V(T1000), V(40), V(0), V(1), V(0), V(Bike), NA) }

\* the column sets of raw files: all columns, the columns of the repository's
\* test files, no cyclist column, no vehicle column, no LATITUDE column
RawColumnSets ==
    { RawCols,
      essential_cols \cup {"NUMBER OF CYCLIST INJURED", "VEHICLE TYPE CODE 1"},
      essential_cols \cup {"VEHICLE TYPE CODE 1", "VEHICLE TYPE CODE 2"},
      essential_cols \cup {"NUMBER OF CYCLIST INJURED", "NUMBER OF CYCLIST KILLED"},
      RawCols \ {"LATITUDE"} }

SeqsUpTo(S, n) == UNION {[1..k -> S] : k \in 0..n}

RawFiles ==
    { [cols |-> cs, rows |-> [i \in 1..Len(rs) |-> [col \in cs |-> rs[i][col]]]] :
        cs \in RawColumnSets, rs \in SeqsUpTo(RawPool, MaxRawRows) }

PreRow(time, lat, x_, y_) ==
    [col \in REQUIRED_COLUMNS |->
        CASE col = "CRASH DATE" -> V(Date1)
          [] col = "CRASH TIME" -> time
          [] col = "LATITUDE" -> lat
          [] col = "LONGITUDE" -> V(-74)
          [] col = "CRASH_DATETIME" -> IF IsNA(time) THEN NA
                                        ELSE V(Date1 \o <<" ">> \o Val(time))
          [] col = "x" -> x_
          [] col = "y" -> y_]

\* rows of files written by an earlier run (all seven columns present), on a
\* small grid; one row has latitude 0 and no x, one a time with seconds
PrePool ==
    { PreRow(V(T1000), V(40), V(0), V(0)),
      PreRow(V(T1005), V(40), V(1), V(1)),
      PreRow(V(T1010), V(40), V(5), V(5)),
      PreRow(V(T1005), V(40), V(10), V(10)),
      PreRow(V(T1000), V(0), NA, V(5)),
      PreRow(V(T100500), V(40), V(5), V(5)) }

PreFiles ==
    { [cols |-> REQUIRED_COLUMNS, rows |-> rs] : rs \in SeqsUpTo(PrePool, MaxRows) }

StationsXY(points) ==
    [cols |-> {"station_id", "x_centered", "y_centered"},
     rows |-> [i \in 1..Len(points) |->
        [idx |-> i - 1,
         cell |-> [col \in {"station_id", "x_centered", "y_centered"} |->
            CASE col = "station_id" -> V(i)
              [] col = "x_centered" -> V(points[i][1])
              [] col = "y_centered" -> V(points[i][2])]]]]

\* citibike datasets as citibike_alignment reads them: the centre and the
\* stations' centred coordinates (which sum to zero on each axis).  The first
\* lies around the raw files' crashes; its box ends exactly on longitude -76 and
\* -74 and on latitude 40, and leaves latitude 42 outside.
CitibikeNYC ==
    [x_center |-> transform_x(-75), y_center |-> transform_y(41),
     stations |-> StationsXY(<< <<-111319, -146400>>, <<111319, 146400>> >>)]

\* around the grid of the preprocessed files: one box holding the whole grid,
\* one leaving x = 0 and x = 10 outside
CitibikeGrid ==
    { [x_center |-> 5, y_center |-> 5,
       stations |-> StationsXY(<< <<-5, -5>>, <<5, 5>> >>)],
      [x_center |-> 5, y_center |-> 5,
       stations |-> StationsXY(<< <<-4, -5>>, <<4, 5>>, <<0, 0>> >>)] }

\* a crash file together with the citibike dataset of its area
CrashInputs ==
    {<<f, CitibikeNYC>> : f \in RawFiles} \cup (PreFiles \X CitibikeGrid)

TimeBinSizes == {15, 30}

NoCall == [op |-> "none", bins |-> 0, time_bin_size |-> 0]

-----------------------------------------------------------------------------
(* Files, and the values of a model that is not running *)

Csv(t) == [type |-> "csv", table |-> t, members |-> <<>>]

Garbage == [type |-> "garbage", table |-> EmptyTable, members |-> <<>>]

Zip(members) == [type |-> "zip", table |-> EmptyTable, members |-> members]

File(name, content) == [name |-> name, content |-> content]

Path(kind, file, entries) == [kind |-> kind, file |-> file, entries |-> entries]

NoFile == File(<<>>, Garbage)

NoPriceCall == [op |-> "none", started_at |-> [day |-> 0, minute |-> 0],
                start_station_id |-> <<>>, predicted_crash_count |-> 0]

NoPrice == [exc |-> "none", price |-> <<0, 1>>, risk |-> <<0, 1>>]

NoEstimator == [data |-> <<>>, x_min |-> 0, x_max |-> 0, y_min |-> 0, y_max |-> 0]

NoDensCall == [op |-> "none", bins |-> 0, grid_size |-> 0, density |-> FALSE]

None == [kind |-> "None"]

NoCalculator == [time_bin_size |-> 0]

\* nothing computed yet: no time centre, no raster, no bin index
NoTimes == [time_center |-> NA, raster |-> NA, bin_index |-> NA]

TimeIdle ==
    /\ calculator = NoCalculator
    /\ minute = 0
    /\ time_ret = NoTimes

DensIdle ==
    /\ estimator = NoEstimator
    /\ numerator = NoEstimator
    /\ dens_call = NoDensCall
    /\ dens_ret = None
    /\ hist_locals = None
    /\ plotted = None

CitiIdle ==
    /\ fs = Path("missing", NoFile, <<>>)
    /\ citi_pc = "idle"
    /\ citi_exc = "none"
    /\ todo = <<>>
    /\ df_list = <<>>
    /\ loaded = NA
    /\ df_rides = NA
    /\ dropped_rows = NA
    /\ stations = NA
    /\ duration_mean = NA
    /\ duration_std = NA
    /\ x_center = NA
    /\ y_center = NA
    /\ price_call = NoPriceCall
    /\ price_ret = NoPrice

-----------------------------------------------------------------------------
(* BikeCrashDataset: the state machine *)

CrashInit ==
    /\ \E input \in CrashInputs : crash_file = input[1] /\ citibike = input[2]
    /\ df = EmptyTable
    /\ crash_pc = "new"
    /\ crash_exc = "none"
    /\ processed = FALSE
    /\ call = NoCall
    /\ ret = NoRet
    /\ CitiIdle
    /\ DensIdle
    /\ TimeIdle

\* BikeCrashDataset(path)
BikeCrashDataset_init ==
    /\ crash_pc = "new"
    /\ LET r == crash_init(crash_file)
       IN  /\ df' = r.df
           /\ processed' = r.processed
           /\ crash_exc' = r.exc
           /\ crash_pc' = IF r.exc = "none" THEN "constructed" ELSE "raised"
    /\ call' = [NoCall EXCEPT !.op = "__init__"]
    /\ ret' = NoRet
    /\ UNCHANGED <<crash_file, citibike>>
    /\ UNCHANGED citi_vars
    /\ UNCHANGED dens_vars
    /\ UNCHANGED time_vars

\* dataset.citibike_alignment(citibike)
CitibikeAlignment ==
    /\ crash_pc = "constructed"
    /\ df' = citibike_alignment(df, citibike)
    /\ call' = [NoCall EXCEPT !.op = "citibike_alignment"]
    /\ crash_exc' = "none"
    /\ ret' = NoRet
    /\ UNCHANGED <<crash_file, crash_pc, processed, citibike>>
    /\ UNCHANGED citi_vars
    /\ UNCHANGED dens_vars
    /\ UNCHANGED time_vars

\* dataset.spatio_temporal_rasterization(bins, time_bin_size)
SpatioTemporalRasterization ==
    /\ crash_pc = "constructed"
    /\ \E bins \in 1..MaxBins, size \in TimeBinSizes, rx \in BOOLEAN, ry \in BOOLEAN :
        /\ rounding_possible(df, bins, rx, ry)
        /\ ret' = spatio_temporal_rasterization(df, bins, size, rx, ry)
        /\ crash_exc' = ret'.exc
        /\ call' = [NoCall EXCEPT !.op = "spatio_temporal_rasterization",
                                  !.bins = bins, !.time_bin_size = size]
    /\ UNCHANGED <<crash_file, df, crash_pc, processed, citibike>>
    /\ UNCHANGED citi_vars
    /\ UNCHANGED dens_vars
    /\ UNCHANGED time_vars

CrashNext ==
    \/ BikeCrashDataset_init
    \/ CitibikeAlignment
    \/ SpatioTemporalRasterization

SpecCrash == CrashInit /\ [][CrashNext]_vars

-----------------------------------------------------------------------------
(* Claims about BikeCrashDataset, checked under SpecCrash *)

RasterReturned == call.op = "spatio_temporal_rasterization" /\ ret.kind = "raster"

RECURSIVE SumCrashCount(_)
SumCrashCount(rows) ==
    IF Len(rows) = 0 THEN 0
    ELSE rows[1].crash_count + SumCrashCount(Tail(rows))

\* C1: every raster that spatio_temporal_rasterization returns has integer
\* crash counts >= 0 whose sum is the number of rows of the dataset: every
\* crash is counted in exactly one cell.
C1_CountsSumToRows ==
    RasterReturned =>
        /\ \A g \in 1..Len(ret.rows) :
              ret.rows[g].crash_count \in Int /\ ret.rows[g].crash_count >= 0
        /\ SumCrashCount(ret.rows) = Len(df.rows)

\* a raster of two cells or more, one of them holding two crashes or more
C1_Witness ==
    /\ RasterReturned
    /\ Len(ret.rows) >= 2
    /\ \E g \in 1..Len(ret.rows) : ret.rows[g].crash_count >= 2

\* C2: with bins = B every returned x_center lies in [min x_centered,
\* max x_centered] and every returned y_center in [min y_centered,
\* max y_centered] (the centres are kept times 2 * B): the rows at the maximum
\* fall into one of the B bins 0..B-1.
C2_CentersWithinExtent ==
    RasterReturned =>
        \A g \in 1..Len(ret.rows) :
            /\ 2 * call.bins * SetMin(ColValues(df, "x_centered")) <= ret.rows[g].x_center
            /\ ret.rows[g].x_center <= 2 * call.bins * SetMax(ColValues(df, "x_centered"))
            /\ 2 * call.bins * SetMin(ColValues(df, "y_centered")) <= ret.rows[g].y_center
            /\ ret.rows[g].y_center <= 2 * call.bins * SetMax(ColValues(df, "y_centered"))

\* case-insensitive 'bic' or 'bik' somewhere in a text
C3_NamesBike(s) ==
    \E p \in 1..(Len(s) - 2) :
        /\ s[p] \in {"b", "B"}
        /\ s[p + 1] \in {"i", "I"}
        /\ s[p + 2] \in {"c", "C", "k", "K"}

\* (a) of C3 for a row of the file; an absent column is no match
C3_IsBikeCrash(file, row) ==
    \/ \E col \in {"NUMBER OF CYCLIST INJURED", "NUMBER OF CYCLIST KILLED"} \cap file.cols :
          row[col] # NA /\ row[col][1] > 0
    \/ \E col \in {"VEHICLE TYPE CODE 1", "VEHICLE TYPE CODE 2", "VEHICLE TYPE CODE 3",
                   "VEHICLE TYPE CODE 4", "VEHICLE TYPE CODE 5"} \cap file.cols :
          row[col] # NA /\ C3_NamesBike(row[col][1])

\* (b) and (c) of C3 for a row of the file
C3_HasPosition(row) ==
    /\ \A col \in {"CRASH DATE", "CRASH TIME", "LATITUDE", "LONGITUDE"} : row[col] # NA
    /\ row["LATITUDE"][1] # 0
    /\ row["LONGITUDE"][1] # 0

\* C3: after a raw file was processed, row i of the file is in df (under its
\* index label i - 1, with its date, time, latitude and longitude) if and only
\* if it is a bike crash, none of the four essential values is missing, and
\* latitude and longitude are not 0.
C3_KeptIffBikeCrash ==
    (crash_pc = "constructed" /\ processed /\ call.op = "__init__") =>
        \A i \in 1..Len(crash_file.rows) :
            LET row == crash_file.rows[i]
            IN  /\ (i - 1 \in Index(df)) <=>
                      (C3_IsBikeCrash(crash_file, row) /\ C3_HasPosition(row))
                /\ (i - 1 \in Index(df)) =>
                      \A col \in {"CRASH DATE", "CRASH TIME", "LATITUDE", "LONGITUDE"} :
                          RowAt(df, i - 1).cell[col] = row[col]

\* a processed file without the cyclist-injured column, of which one row was
\* kept and one dropped
C3_Witness ==
    /\ crash_pc = "constructed" /\ processed /\ call.op = "__init__"
    /\ "NUMBER OF CYCLIST INJURED" \notin crash_file.cols
    /\ Len(crash_file.rows) = 2
    /\ Len(df.rows) = 1

\* C4: once constructed, df has the seven required columns on both paths;
\* _process_dataset ran exactly when the file lacked one of them; and a file
\* that had them all is kept as read, every row in place.
C4_RequiredColumnsAfterInit ==
    crash_pc = "constructed" =>
        /\ {"CRASH DATE", "CRASH TIME", "LATITUDE", "LONGITUDE",
            "CRASH_DATETIME", "x", "y"} \subseteq df.cols
        /\ processed <=>
              ~({"CRASH DATE", "CRASH TIME", "LATITUDE", "LONGITUDE",
                 "CRASH_DATETIME", "x", "y"} \subseteq crash_file.cols)
        /\ (~processed /\ call.op = "__init__") =>
              /\ Len(df.rows) = Len(crash_file.rows)
              /\ \A i \in 1..Len(df.rows) :
                    df.rows[i].idx = i - 1 /\ df.rows[i].cell = crash_file.rows[i]

\* a file that had the columns, kept with a row at latitude 0 and without x
C4_Witness ==
    /\ crash_pc = "constructed" /\ ~processed /\ call.op = "__init__"
    /\ \E i \in 1..Len(df.rows) :
          df.rows[i].cell["LATITUDE"] = V(0) /\ df.rows[i].cell["x"] = NA

\* v lies in [min, max] of the stations' column col (bounds included)
C5_WithinStations(v, c, col) ==
    /\ \E i \in 1..Len(c.stations.rows) : c.stations.rows[i].cell[col][1] <= v
    /\ \E i \in 1..Len(c.stations.rows) : c.stations.rows[i].cell[col][1] >= v

\* the row r of the dataset before the call lies in the stations' box
C5_InBox(r, c) ==
    /\ r.cell["x"] # NA /\ r.cell["y"] # NA
    /\ C5_WithinStations(r.cell["x"][1] - c.x_center, c, "x_centered")
    /\ C5_WithinStations(r.cell["y"][1] - c.y_center, c, "y_centered")

\* C5: citibike_alignment(c) keeps exactly the rows of df that lie in the box
\* of c's stations (bounds included), adds none, and leaves every kept row with
\* x_centered = x - c.x_center and y_centered = y - c.y_center.
C5_AlignmentKeepsBox ==
    [][ call'.op = "citibike_alignment" =>
          /\ Index(df') = {df.rows[i].idx : i \in {k \in 1..Len(df.rows) : C5_InBox(df.rows[k], citibike)}}
          /\ Len(df'.rows) = Cardinality(Index(df'))
          /\ \A i \in 1..Len(df'.rows) :
                LET r == df'.rows[i]
                IN  /\ r.cell["x_centered"] = V(r.cell["x"][1] - citibike.x_center)
                    /\ r.cell["y_centered"] = V(r.cell["y"][1] - citibike.y_center)
                    /\ C5_WithinStations(r.cell["x_centered"][1], citibike, "x_centered")
                    /\ C5_WithinStations(r.cell["y_centered"][1], citibike, "y_centered")
                    /\ r.cell["x"] = RowAt(df, r.idx).cell["x"]
                    /\ r.cell["y"] = RowAt(df, r.idx).cell["y"] ]_vars

\* an aligned dataset that lost a row to the box and kept one lying on its border
C5_Witness ==
    /\ call.op = "citibike_alignment"
    /\ ~processed
    /\ Len(df.rows) < Len(crash_file.rows)
    /\ \E i \in 1..Len(df.rows) :
          df.rows[i].cell["x_centered"] = ColMax(citibike.stations, "x_centered")

\* C22: spatio_temporal_rasterization returns a raster for every aligned
\* dataset that has at least one row, a dataset of a single crash or of
\* crashes sharing their x_centered or their y_centered included.
C22_RasterForEveryAlignedDataset ==
    ( /\ call.op = "spatio_temporal_rasterization"
      /\ {"x_centered", "y_centered"} \subseteq df.cols
      /\ Len(df.rows) >= 1 )
    => ret.kind = "raster" /\ ret.exc = "none"

-----------------------------------------------------------------------------
(* CitibikeDataset: tables *)

required_columns ==
    {"ride_id", "rideable_type", "started_at", "ended_at",
     "start_station_name", "start_station_id", "end_station_name", "end_station_id",
     "start_lat", "start_lng", "end_lat", "end_lng", "member_casual"}

\* a plausible slip: the check of the columns left out
missing_columns_unchecked(t) == {}

\* missing_columns: the required columns the loaded data lacks
missing_columns(t) == required_columns \ t.cols

\* numbers read from a file keep their digits, marked with their dtype
Int64(digits) == <<"int64">> \o digits

Float64(digits) == <<"float64">> \o digits

\* pd.read_csv infers the dtype of a column of station ids: when every cell
\* that is present is a number the column is int64, and float64 when a cell is
\* missing; a column with any other text keeps every cell as the text written
infer_dtype(t, col) ==
    LET numeric == \A i \in 1..Len(t.rows) :
                      \/ IsNA(t.rows[i].cell[col])
                      \/ IsIntText(Val(t.rows[i].cell[col]))
        missing == \E i \in 1..Len(t.rows) : IsNA(t.rows[i].cell[col])
        typed(c) == IF IsNA(c) \/ ~numeric THEN c
                    ELSE IF missing THEN V(Float64(Val(c))) ELSE V(Int64(Val(c)))
    IN  [t EXCEPT !.rows = [i \in 1..Len(t.rows) |->
            [t.rows[i] EXCEPT !.cell[col] = typed(@)]]]

\* pd.read_csv(path) on a file of rides
read_rides_csv(file) ==
    infer_dtype(infer_dtype(read_csv(file), "start_station_id"), "end_station_id")

\* astype(str) on one cell: str(72) is '72', str(72.0) is '72.0', str(nan) is 'nan'
str_of(c) ==
    IF IsNA(c) THEN <<"n","a","n">>
    ELSE IF Len(Val(c)) > 0 /\ Val(c)[1] = "int64" THEN Tail(Val(c))
    ELSE IF Len(Val(c)) > 0 /\ Val(c)[1] = "float64" THEN Tail(Val(c)) \o <<".","0">>
    ELSE Val(c)

\* a row has no missing value in any column
complete(t, r) == \A col \in t.cols : ~IsNA(r.cell[col])

\* reset_index(drop=True): the rows relabelled 0..k-1
reset_index(t) ==
    [t EXCEPT !.rows = [i \in 1..Len(t.rows) |-> [t.rows[i] EXCEPT !.idx = i - 1]]]

\* df.dropna().reset_index(drop=True)
cleaned_of(t) ==
    reset_index(Filter(t, {k \in 1..Len(t.rows) : complete(t, t.rows[k])}))

\* a plausible slip: the mask taken one label too far
dropped_rows_off_by_one(original, cleaned) ==
    Filter(original, {k \in 1..Len(original.rows) :
                        original.rows[k].idx > Len(cleaned.rows)})

\* lines 86-87: the rows of original_df whose index label is not an index label
\* of cleaned_df (which was relabelled 0..k-1)
dropped_rows_of(original, cleaned) ==
    Filter(original, {k \in 1..Len(original.rows) :
                        original.rows[k].idx \notin Index(cleaned)})

\* pd.concat(df_list, ignore_index=True): columns united, cells a file lacks
\* missing, rows relabelled 0..n-1
RECURSIVE ConcatRows(_, _)
ConcatRows(list, cols) ==
    IF Len(list) = 0 THEN <<>>
    ELSE [i \in 1..Len(list[1].rows) |->
             [idx |-> 0,
              cell |-> [col \in cols |->
                 IF col \in list[1].cols THEN list[1].rows[i].cell[col] ELSE NA]]]
         \o ConcatRows(Tail(list), cols)

concat(list) ==
    LET cols == UNION {list[i].cols : i \in 1..Len(list)}
    IN  reset_index([cols |-> cols, rows |-> ConcatRows(list, cols)])

\* a timestamp text 'D H:MM' (day of the month, time of day) as a datetime:
\* pd.to_datetime(..., errors='coerce') gives NaT for what does not parse
SpacesOf(s) == {i \in 1..Len(s) : s[i] = " "}

to_datetime_ride(c) ==
    IF IsNA(c) \/ Cardinality(SpacesOf(Val(c))) # 1 THEN NA
    ELSE LET s == Val(c)
             k == CHOOSE i \in SpacesOf(s) : TRUE
             day == SubSeq(s, 1, k - 1)
             time == V(SubSeq(s, k + 1, Len(s)))
         IN  IF IsIntText(day) /\ TimeParses(time)
             THEN V([day |-> IntOf(day), minute |-> time_to_minutes(time)])
             ELSE NA

\* (ended_at - started_at).dt.total_seconds(); NaN when either is NaT
ride_duration_of(started, ended) ==
    IF IsNA(started) \/ IsNA(ended) THEN NA
    ELSE V(((Val(ended).day - Val(started).day) * 1440
            + (Val(ended).minute - Val(started).minute)) * 60)

\* lines 89-96: end_station_id as text, the two timestamps parsed, ride_duration
with_ride_columns(t) ==
    LET cols == t.cols \cup {"ride_duration"}
    IN  [cols |-> cols,
         rows |-> [i \in 1..Len(t.rows) |->
            LET c == t.rows[i].cell
                started == to_datetime_ride(c["started_at"])
                ended == to_datetime_ride(c["ended_at"])
            IN  [idx  |-> t.rows[i].idx,
                 cell |-> [col \in cols |->
                    CASE col = "end_station_id" -> V(str_of(c[col]))
                      [] col = "started_at" -> started
                      [] col = "ended_at" -> ended
                      [] col = "ride_duration" -> ride_duration_of(started, ended)
                      [] OTHER -> c[col]]]]]

\* the values of a column that are not missing, in row order
Present(t, col) ==
    LET rs == SelectSeq(t.rows, LAMBDA r : ~IsNA(r.cell[col]))
    IN  [i \in 1..Len(rs) |-> Val(rs[i].cell[col])]

RECURSIVE SumSeq(_)
SumSeq(f) == IF Len(f) = 0 THEN 0 ELSE f[1] + SumSeq(Tail(f))

\* Series.mean(): the mean of the values that are not NaN, NaN when there is none
mean_of(xs) == IF Len(xs) = 0 THEN NA ELSE V(<<SumSeq(xs), Len(xs)>>)

\* a plausible slip: the population standard deviation (ddof=0)
std_of_population(xs) ==
    IF Len(xs) < 1 THEN NA
    ELSE V(<< Len(xs) * SumSeq([i \in 1..Len(xs) |-> xs[i] * xs[i]])
                 - SumSeq(xs) * SumSeq(xs),
              Len(xs) * Len(xs) >>)

\* Series.std(): the sample standard deviation (ddof=1) of the values that are
\* not NaN, NaN for fewer than two values.  Kept as its square:
\* (k * sum(x^2) - sum(x)^2) / (k * (k - 1)).
std_of(xs) ==
    IF Len(xs) < 2 THEN NA
    ELSE V(<< Len(xs) * SumSeq([i \in 1..Len(xs) |-> xs[i] * xs[i]])
                 - SumSeq(xs) * SumSeq(xs),
              Len(xs) * (Len(xs) - 1) >>)

\* (ride_duration - duration_mean) / duration_std for one ride: NaN when the
\* duration or the standard deviation is NaN, and for 0 / 0; else the deviation
\* from the mean (a fraction) together with the square of its divisor
normalized_of(duration, mean, std) ==
    IF IsNA(duration) \/ IsNA(mean) \/ IsNA(std) THEN NA
    ELSE LET dev == << Val(mean)[2] * Val(duration) - Val(mean)[1], Val(mean)[2] >>
         IN  IF Val(std)[1] = 0 /\ dev[1] = 0 THEN NA
             ELSE V([dev |-> dev, std2 |-> Val(std)])

\* line 100: the column ride_duration_normalized
with_normalized(t, mean, std) ==
    LET cols == t.cols \cup {"ride_duration_normalized"}
    IN  [cols |-> cols,
         rows |-> [i \in 1..Len(t.rows) |->
            [idx  |-> t.rows[i].idx,
             cell |-> [col \in cols |->
                IF col = "ride_duration_normalized"
                THEN normalized_of(t.rows[i].cell["ride_duration"], mean, std)
                ELSE t.rows[i].cell[col]]]]]

-----------------------------------------------------------------------------
(* CitibikeDataset._process_stations *)

\* drop_duplicates(subset=col): the first row of each value of col
drop_duplicates(t, col) ==
    Filter(t, {k \in 1..Len(t.rows) :
                 \A j \in 1..(k - 1) : t.rows[j].cell[col] # t.rows[k].cell[col]})

\* df[[id, name, lat, lng]].dropna().drop_duplicates(subset=id).rename(...)
stations_of(t, side) ==
    LET src == [station_id   |-> side \o "_station_id",
                station_name |-> side \o "_station_name",
                lat          |-> side \o "_lat",
                lng          |-> side \o "_lng"]
        cols == {"station_id", "station_name", "lat", "lng"}
        picked == [cols |-> cols,
                   rows |-> [i \in 1..Len(t.rows) |->
                      [idx |-> t.rows[i].idx,
                       cell |-> [col \in cols |-> t.rows[i].cell[src[col]]]]]]
        present == Filter(picked, {k \in 1..Len(picked.rows) :
                                     complete(picked, picked.rows[k])})
    IN  drop_duplicates(present, "station_id")

\* value_counts() of a column, looked up for one station id (0 after fillna)
value_count(t, col, id) ==
    Cardinality({k \in 1..Len(t.rows) : t.rows[k].cell[col] = id})

\* a plausible slip: the centre not subtracted
centered_of_raw(xs, i) == Len(xs) * xs[i]

\* lines 178-179: x - x_center for station i, times the number of stations
centered_of(xs, i) == Len(xs) * xs[i] - SumSeq(xs)

\* _process_stations(df): the stations table.  x_centered and y_centered are
\* kept times the number of stations n: n * x - sum(x).
process_stations(t) ==
    LET both == concat(<<stations_of(t, "start"), stations_of(t, "end")>>)
        uniq == drop_duplicates(both, "station_id")
        n == Len(uniq.rows)
        xs == [i \in 1..n |-> transform_x(Val(uniq.rows[i].cell["lng"]))]
        ys == [i \in 1..n |-> transform_y(Val(uniq.rows[i].cell["lat"]))]
        cols == {"station_id", "station_name", "lat", "lng", "start_count",
                 "end_count", "x", "y", "x_centered", "y_centered"}
    IN  [x_center |-> mean_of(xs),
         y_center |-> mean_of(ys),
         cols |-> cols,
         rows |-> [i \in 1..n |->
            LET c == uniq.rows[i].cell
            IN  [idx  |-> uniq.rows[i].idx,
                 cell |-> [col \in cols |->
                    CASE col = "start_count" ->
                            V(value_count(t, "start_station_id", c["station_id"]))
                      [] col = "end_count" ->
                            V(value_count(t, "end_station_id", c["station_id"]))
                      [] col = "x" -> V(xs[i])
                      [] col = "y" -> V(ys[i])
                      [] col = "x_centered" -> V(centered_of(xs, i))
                      [] col = "y_centered" -> V(centered_of(ys, i))
                      [] OTHER -> c[col]]]]]

-----------------------------------------------------------------------------
(* CitibikeDataset.__init__ *)

DotCsv == <<".","c","s","v">>

DotZip == <<".","z","i","p">>

\* pd.read_csv(path) completes: the file holds CSV text
csv_readable(file) == file.content.type = "csv"

\* a plausible slip: the failure of an extraction not noticed
zip_extractable_any(file) == TRUE

\* zipfile.ZipFile(path) and extractall complete: the file is a ZIP archive
zip_extractable(file) == file.content.type = "zip"

\* z.extractall(root) then os.remove(zip_path): the archive's members are
\* written into the directory (over files of the same name), the archive goes
extract_and_remove(entries, zip) ==
    LET members == zip.content.members
        names == {members[i].name : i \in 1..Len(members)}
        keep(e) == e.name # zip.name /\ e.name \notin names
    IN  SelectSeq(entries, keep) \o members

\* lines 84-112: the attributes computed from the loaded input
citi_clean(df_in) ==
    LET original_df == df_in
        cleaned_df == cleaned_of(df_in)
        timed == with_ride_columns(cleaned_df)
        mean == mean_of(Present(timed, "ride_duration"))
        std == std_of(Present(timed, "ride_duration"))
        rides == with_normalized(timed, mean, std)
        st == process_stations(rides)
    IN  [dropped_rows  |-> dropped_rows_of(original_df, cleaned_df),
         duration_mean |-> mean,
         duration_std  |-> std,
         df_rides      |-> rides,
         stations      |-> [cols |-> st.cols, rows |-> st.rows],
         x_center      |-> st.x_center,
         y_center      |-> st.y_center]

-----------------------------------------------------------------------------
(* PriceCalculator *)

time_bin_size == 30

cost_per_accident == 5000

\* traffic_adjustment = 0.001 as a fraction
traffic_adjustment == <<1, 1000>>

\* convert_time_to_minutes(dt): dt.hour * 60 + dt.minute
convert_time_to_minutes(dt) == (dt.minute \div 60) * 60 + (dt.minute % 60)

\* a plausible slip: the bin taken by rounding to the nearest bin start
get_time_bin_center2_nearest(self, minutes) ==
    LET time_bin == (2 * minutes + self.time_bin_size) \div (2 * self.time_bin_size)
    IN  2 * (time_bin * self.time_bin_size) + self.time_bin_size

\* get_time_bin_center(minutes) of a calculator built with any time_bin_size,
\* times 2
get_time_bin_center2_with(self, minutes) ==
    LET time_bin == minutes \div self.time_bin_size
    IN  2 * (time_bin * self.time_bin_size) + self.time_bin_size

\* get_time_bin_center(minutes), times 2
get_time_bin_center2(minutes) ==
    2 * ((minutes \div time_bin_size) * time_bin_size) + time_bin_size

\* line 82, and time_bin(dt) of lines 84-85 on a ride's minutes
bin_index_with(self, minutes) == minutes \div self.time_bin_size

\* time_bin(dt) of line 84 on a cell; NaT gives NaN, equal to no bin
time_bin_is(c, bin_index) ==
    ~IsNA(c) /\ convert_time_to_minutes(Val(c)) \div time_bin_size = bin_index

\* lines 87-88 and 90-91: the rides at the station on one side, in the bin
num_rides(rides, id_col, time_col, station_id, bin_index) ==
    Cardinality({k \in 1..Len(rides.rows) :
        /\ rides.rows[k].cell[id_col] = V(station_id)
        /\ time_bin_is(rides.rows[k].cell[time_col], bin_index)})

\* a plausible slip: the rides ending at the station left out of the traffic
traffic_starts_only(rides, station_id, bin_index) ==
    num_rides(rides, "start_station_id", "started_at", station_id, bin_index)

\* line 93: traffic = num_starts + num_ends
traffic_of(rides, station_id, bin_index) ==
    num_rides(rides, "start_station_id", "started_at", station_id, bin_index)
    + num_rides(rides, "end_station_id", "ended_at", station_id, bin_index)

\* a plausible slip: an unknown station priced at the data's centre (0, 0)
\* instead of raising
predict_insurance_price_default_location(st, rides, started_at, start_station_id, predicted_crash_count) ==
    LET minutes == convert_time_to_minutes(started_at)
        bin_index == minutes \div time_bin_size
        traffic == traffic_of(rides, start_station_id, bin_index)
        risk == IF traffic > 0 THEN <<predicted_crash_count, traffic>>
                ELSE <<predicted_crash_count, 1>>
    IN  [exc   |-> "none",
         risk  |-> risk,
         price |-> << risk[1] * cost_per_accident * traffic_adjustment[1],
                      risk[2] * traffic_adjustment[2] >>]

\* predict_insurance_price(started_at, start_station_id) with the model
\* predicting predicted_crash_count: [exc, price, risk], price and risk as
\* fractions <<numerator, denominator>>
predict_insurance_price(st, rides, started_at, start_station_id, predicted_crash_count) ==
    LET minutes == convert_time_to_minutes(started_at)
        found == {k \in 1..Len(st.rows) : st.rows[k].cell["station_id"] = V(start_station_id)}
        bin_index == minutes \div time_bin_size
        traffic == traffic_of(rides, start_station_id, bin_index)
        risk == IF traffic > 0 THEN <<predicted_crash_count, traffic>>
                ELSE <<predicted_crash_count, 1>>
    IN  IF found = {}
        THEN [exc |-> "IndexError", price |-> <<0, 1>>, risk |-> <<0, 1>>]
        ELSE [exc   |-> "none",
              risk  |-> risk,
              price |-> << risk[1] * cost_per_accident * traffic_adjustment[1],
                           risk[2] * traffic_adjustment[2] >>]

-----------------------------------------------------------------------------
(* Inputs of the CitibikeDataset model *)

A1 == <<"A","1">>

B1 == <<"B","1">>

C1 == <<"C","1">>

Z9 == <<"Z","9">>

Id72 == <<"7","2">>

Ts0800 == <<"1"," ","8",":","0","0">>

Ts0805 == <<"1"," ","8",":","0","5">>

Ts0810 == <<"1"," ","8",":","1","0">>

Ts0825 == <<"1"," ","8",":","2","5">>

Ts0840 == <<"1"," ","8",":","4","0">>

Ts0900 == <<"1"," ","9",":","0","0">>

Ts0920 == <<"1"," ","9",":","2","0">>

TsBad == <<"s","o","o","n">>

RideRow(ride_id, started, ended, start_id, end_id, start_lat, end_lat) ==
    [col \in required_columns |->
        CASE col = "ride_id" -> V(ride_id)
          [] col = "rideable_type" -> V(<<"c","l","a","s","s","i","c">>)
          [] col = "started_at" -> started
          [] col = "ended_at" -> ended
          [] col = "start_station_name" -> V(<<"S","t","a","t","i","o","n">>)
          [] col = "start_station_id" -> start_id
          [] col = "end_station_name" -> V(<<"S","t","a","t","i","o","n">>)
          [] col = "end_station_id" -> end_id
          [] col = "start_lat" -> start_lat
          [] col = "start_lng" -> V(-74)
          [] col = "end_lat" -> end_lat
          [] col = "end_lng" -> V(-74)
          [] col = "member_casual" -> V(<<"m","e","m","b","e","r">>)]

\* rides: the ride of the price calculator's test (A1 to A1), rides between
\* A1 and B1, a ride at latitude 0, a ride without end station, a ride whose
\* start time is no timestamp, a ride at a station whose id is a number.  No
\* ride lacks its start station, so no start column is float64 (for which the
\* merges of _process_stations are not modelled).
RidePool ==
    { RideRow(1, V(Ts0805), V(Ts0810), V(A1), V(A1), V(40), V(40)),
      RideRow(2, V(Ts0825), V(Ts0840), V(A1), V(B1), V(40), V(41)),
      RideRow(3, V(Ts0800), V(Ts0825), V(B1), V(A1), V(41), V(40)),
      RideRow(4, V(Ts0900), V(Ts0920), V(B1), V(B1), V(0), V(0)),
      RideRow(5, V(Ts0900), V(Ts0920), V(C1), NA, V(42), V(42)),
      RideRow(6, V(TsBad), V(Ts0920), V(A1), V(B1), V(40), V(41)),
      RideRow(7, V(Ts0900), V(Ts0920), V(Id72), V(Id72), V(40), V(40)) }

RideTable(rs) == [cols |-> required_columns, rows |-> rs]

RideTables == {RideTable(rs) : rs \in SeqsUpTo(RidePool, MaxRides)}

Ride(n) == CHOOSE r \in RidePool : r["ride_id"] = V(n)

\* a CSV file that lacks two of the thirteen columns
ForeignTable ==
    [cols |-> required_columns \ {"rideable_type", "member_casual"},
     rows |-> << [col \in required_columns \ {"rideable_type", "member_casual"} |->
                    Ride(1)[col]] >>]

NameRCsv == <<"r",".","c","s","v">>

NameRCsvUpper == <<"R",".","C","S","V">>

NameRTxt == <<"r",".","t","x","t">>

NameRZip == <<"r",".","z","i","p">>

NameCsvNoDot == <<"c","s","v">>

NameACsv == <<"a",".","c","s","v">>

NameBCsvUpper == <<"B",".","C","S","V">>

NameCCsv == <<"c",".","c","s","v">>

NameBadCsv == <<"x",".","c","s","v">>

NameZZip == <<"z",".","z","i","p">>

NameBadZip == <<"y",".","z","i","p">>

\* the files a directory may hold: CSVs, an unreadable CSV, an archive holding a
\* CSV and a text file, a broken archive, a text file
DirPool ==
    { File(NameACsv, Csv(RideTable(<<Ride(1), Ride(5)>>))),
      File(NameBCsvUpper, Csv(RideTable(<<Ride(2)>>))),
      File(NameBadCsv, Garbage),
      File(NameZZip, Zip(<< File(NameCCsv, Csv(RideTable(<<Ride(5), Ride(3)>>))),
                            File(NameRTxt, Garbage) >>)),
      File(NameBadZip, Garbage),
      File(NameRTxt, Garbage) }

Distinct(es) == \A i, j \in 1..Len(es) : i # j => es[i] # es[j]

\* what the path may be: nothing, neither file nor directory, a file (CSV by name
\* or not, readable or not, the Citibike columns or not, a ZIP archive of a
\* Citibike CSV), a directory
Paths ==
    { Path("missing", NoFile, <<>>), Path("other", NoFile, <<>>) }
    \cup { Path("file", File(NameRCsv, Csv(t)), <<>>) : t \in RideTables \cup {ForeignTable} }
    \cup { Path("file", File(n, Csv(RideTable(<<Ride(1), Ride(2)>>))), <<>>) :
              n \in {NameRCsvUpper, NameRTxt, NameCsvNoDot} }
    \cup { Path("file", File(NameRCsv, Garbage), <<>>),
           Path("file", File(NameRZip,
                Zip(<<File(NameCCsv, Csv(RideTable(<<Ride(1), Ride(2)>>)))>>)), <<>>) }
    \cup { Path("dir", NoFile, es) :
              es \in {q \in SeqsUpTo(DirPool, MaxEntries) : Distinct(q)} }

\* the arguments of predict_insurance_price: 8:07 and 9:05 on day 1
StartTimes == {[day |-> 1, minute |-> 487], [day |-> 1, minute |-> 545]}

StationIds == {A1, B1, Z9}

\* what the pickled model predicts
PredictedCrashCounts == {0, 2}

-----------------------------------------------------------------------------
(* CitibikeDataset and PriceCalculator: the state machine *)

CrashIdle ==
    /\ crash_file = EmptyTable
    /\ citibike = CitibikeNYC
    /\ df = EmptyTable
    /\ crash_pc = "idle"
    /\ crash_exc = "none"
    /\ processed = FALSE
    /\ call = NoCall
    /\ ret = NoRet

\* lines 22-28: the attributes are None, then the path is looked at
CitiInit ==
    /\ fs \in Paths
    /\ citi_pc = "new"
    /\ citi_exc = "none"
    /\ todo = <<>>
    /\ df_list = <<>>
    /\ loaded = NA
    /\ df_rides = NA
    /\ dropped_rows = NA
    /\ stations = NA
    /\ duration_mean = NA
    /\ duration_std = NA
    /\ x_center = NA
    /\ y_center = NA
    /\ price_call = NoPriceCall
    /\ price_ret = NoPrice
    /\ CrashIdle
    /\ DensIdle
    /\ TimeIdle

Raise(exc) ==
    /\ citi_pc' = "raised"
    /\ citi_exc' = exc

\* lines 30-47: exists / isfile / isdir, and a single file is read
CitiOpen ==
    /\ citi_pc = "new"
    /\ CASE fs.kind = "missing" ->
              Raise("FileNotFoundError") /\ UNCHANGED <<todo, loaded>>
         [] fs.kind = "file" ->
              IF EndsWith(Lower(fs.file.name), DotCsv)
              THEN IF csv_readable(fs.file)
                   THEN /\ loaded' = V(read_rides_csv(fs.file.content.table))
                        /\ citi_pc' = "loaded"
                        /\ UNCHANGED <<citi_exc, todo>>
                   ELSE Raise("ValueError") /\ UNCHANGED <<todo, loaded>>
              ELSE Raise("ValueError") /\ UNCHANGED <<todo, loaded>>
         [] fs.kind = "dir" ->
              /\ todo' = fs.entries
              /\ citi_pc' = "extract"
              /\ UNCHANGED <<citi_exc, loaded>>
         [] OTHER ->
              \* neither branch binds df: line 79 reads an unbound local
              Raise("UnboundLocalError") /\ UNCHANGED <<todo, loaded>>
    /\ UNCHANGED <<fs, df_list, df_rides, dropped_rows, stations, price_call, price_ret>>
    /\ UNCHANGED citi_stats
    /\ UNCHANGED crash_vars
    /\ UNCHANGED dens_vars
    /\ UNCHANGED time_vars

\* lines 45-53: one file of the first walk
CitiExtractStep ==
    /\ citi_pc = "extract"
    /\ todo # <<>>
    /\ LET file == Head(todo)
       IN  IF EndsWith(Lower(file.name), DotZip) /\ zip_extractable(file)
           THEN fs' = [fs EXCEPT !.entries = extract_and_remove(fs.entries, file)]
           ELSE fs' = fs
    /\ todo' = Tail(todo)
    /\ UNCHANGED <<citi_pc, citi_exc, df_list, loaded, df_rides, dropped_rows,
                   stations, price_call, price_ret>>
    /\ UNCHANGED citi_stats
    /\ UNCHANGED crash_vars
    /\ UNCHANGED dens_vars
    /\ UNCHANGED time_vars

\* lines 56-57: the first walk is over, the second one lists the directory
CitiStartLoad ==
    /\ citi_pc = "extract"
    /\ todo = <<>>
    /\ todo' = fs.entries
    /\ df_list' = <<>>
    /\ citi_pc' = "load"
    /\ UNCHANGED <<fs, citi_exc, loaded, df_rides, dropped_rows, stations,
                   price_call, price_ret>>
    /\ UNCHANGED citi_stats
    /\ UNCHANGED crash_vars
    /\ UNCHANGED dens_vars
    /\ UNCHANGED time_vars

\* lines 58-65: one file of the second walk
CitiLoadStep ==
    /\ citi_pc = "load"
    /\ todo # <<>>
    /\ LET file == Head(todo)
       IN  IF EndsWith(Lower(file.name), DotCsv) /\ csv_readable(file)
           THEN df_list' = Append(df_list, read_rides_csv(file.content.table))
           ELSE df_list' = df_list
    /\ todo' = Tail(todo)
    /\ UNCHANGED <<fs, citi_pc, citi_exc, loaded, df_rides, dropped_rows, stations,
                   price_call, price_ret>>
    /\ UNCHANGED citi_stats
    /\ UNCHANGED crash_vars
    /\ UNCHANGED dens_vars
    /\ UNCHANGED time_vars

\* lines 66-72: nothing loaded raises, else the tables are concatenated
CitiConcat ==
    /\ citi_pc = "load"
    /\ todo = <<>>
    /\ IF df_list = <<>>
       THEN Raise("ValueError") /\ UNCHANGED loaded
       ELSE /\ loaded' = V(concat(df_list))
            /\ citi_pc' = "loaded"
            /\ UNCHANGED citi_exc
    /\ UNCHANGED <<fs, todo, df_list, df_rides, dropped_rows, stations,
                   price_call, price_ret>>
    /\ UNCHANGED citi_stats
    /\ UNCHANGED crash_vars
    /\ UNCHANGED dens_vars
    /\ UNCHANGED time_vars

\* lines 74-112: the column check, the cleaning, the stations
CitiFinish ==
    /\ citi_pc = "loaded"
    /\ IF missing_columns(Val(loaded)) # {}
       THEN /\ Raise("ValueError")
            /\ UNCHANGED <<df_rides, dropped_rows, stations>>
            /\ UNCHANGED citi_stats
       ELSE LET r == citi_clean(Val(loaded))
            IN  /\ dropped_rows' = V(r.dropped_rows)
                /\ duration_mean' = r.duration_mean
                /\ duration_std' = r.duration_std
                /\ stations' = V(r.stations)
                /\ x_center' = r.x_center
                /\ y_center' = r.y_center
                /\ df_rides' = V(r.df_rides)
                /\ citi_pc' = "done"
                /\ UNCHANGED citi_exc
    /\ UNCHANGED <<fs, todo, df_list, loaded, price_call, price_ret>>
    /\ UNCHANGED crash_vars
    /\ UNCHANGED dens_vars
    /\ UNCHANGED time_vars

\* PriceCalculator(model_path, dataset).predict_insurance_price(started_at, id)
PredictInsurancePrice ==
    /\ citi_pc = "done"
    /\ \E t \in StartTimes, id \in StationIds, p \in PredictedCrashCounts :
        /\ price_call' = [op |-> "predict_insurance_price", started_at |-> t,
                          start_station_id |-> id, predicted_crash_count |-> p]
        /\ price_ret' = predict_insurance_price(Val(stations), Val(df_rides), t, id, p)
    /\ UNCHANGED <<fs, citi_pc, citi_exc, todo, df_list, loaded, df_rides,
                   dropped_rows, stations>>
    /\ UNCHANGED citi_stats
    /\ UNCHANGED crash_vars
    /\ UNCHANGED dens_vars
    /\ UNCHANGED time_vars

CitiNext ==
    \/ CitiOpen
    \/ CitiExtractStep
    \/ CitiStartLoad
    \/ CitiLoadStep
    \/ CitiConcat
    \/ CitiFinish
    \/ PredictInsurancePrice

SpecCiti == CitiInit /\ [][CitiNext]_vars

-----------------------------------------------------------------------------
(* DensityEstimator.  Coordinates are integers that count halves, so that  *)
(* the 0.5 by which numpy widens an empty range is one unit.  Edges, grid  *)
(* points and ratios are fractions <<num, den>>.                           *)

\* lines 22-31: the data and its bounding box (the KDE is fitted in lines 25-26)
DensityEstimator_init(data) ==
    [data  |-> data,
     x_min |-> SetMin({data[i][1] : i \in 1..Len(data)}),
     x_max |-> SetMax({data[i][1] : i \in 1..Len(data)}),
     y_min |-> SetMin({data[i][2] : i \in 1..Len(data)}),
     y_max |-> SetMax({data[i][2] : i \in 1..Len(data)})]

\* the range np.histogram2d bins over: the given one, widened by 0.5 on both
\* sides when it is empty
outer_edges(lo, hi) == IF lo = hi THEN <<lo - 1, hi + 1>> ELSE <<lo, hi>>

\* a plausible slip: the last bin half-open like the others
bin_index_half_open(x, lo, hi, bins) ==
    IF x < lo \/ x >= hi THEN 0 ELSE ((x - lo) * bins) \div (hi - lo) + 1

\* the bin of x among bins equal bins over [lo, hi], 1..bins: the number of
\* edges <= x (searchsorted, side='right'), the last edge belonging to the last
\* bin; 0 for a point outside the range
bin_index(x, lo, hi, bins) ==
    IF x < lo \/ x > hi THEN 0
    ELSE IF x = hi THEN bins
    ELSE ((x - lo) * bins) \div (hi - lo) + 1

\* np.linspace(lo, hi, bins + 1)
edges_of(lo, hi, bins) == [k \in 1..(bins + 1) |-> <<lo * bins + (k - 1) * (hi - lo), bins>>]

\* np.histogram2d(x, y, bins=bins, range=[[x_lo, x_hi], [y_lo, y_hi]]): counts
\* per cell and the edges of both axes
np_histogram2d(data, bins, x_range, y_range) ==
    LET xr == outer_edges(x_range[1], x_range[2])
        yr == outer_edges(y_range[1], y_range[2])
    IN  [H |-> [i \in 1..bins |-> [j \in 1..bins |->
                  Cardinality({k \in 1..Len(data) :
                      /\ bin_index(data[k][1], xr[1], xr[2], bins) = i
                      /\ bin_index(data[k][2], yr[1], yr[2], bins) = j})]],
         xedges |-> edges_of(xr[1], xr[2], bins),
         yedges |-> edges_of(yr[1], yr[2], bins),
         x_width |-> xr[2] - xr[1],
         y_width |-> yr[2] - yr[1]]

\* density=True: each count divided by the number of points counted and by the
\* area of a bin (the widths count halves, hence the 4)
as_density(h, bins) ==
    LET total == SumSeq([i \in 1..bins |-> SumSeq(h.H[i])])
    IN  [i \in 1..bins |-> [j \in 1..bins |->
            <<h.H[i][j] * bins * bins * 4, total * h.x_width * h.y_width>>]]

\* histogram2d(bins, density): (H, xedges, yedges)
histogram2d(e, bins, density) ==
    LET h == np_histogram2d(e.data, bins, <<e.x_min, e.x_max>>, <<e.y_min, e.y_max>>)
    IN  [kind   |-> "tuple",
         H      |-> IF density THEN as_density(h, bins) ELSE h.H,
         xedges |-> h.xedges,
         yedges |-> h.yedges]

\* np.linspace(lo, hi, grid_size): grid_size points, the single point lo for
\* grid_size = 1
linspace(lo, hi, grid_size) ==
    LET steps == IF grid_size = 1 THEN 1 ELSE grid_size - 1
    IN  [i \in 1..grid_size |-> <<lo * steps + (i - 1) * (hi - lo), steps>>]

\* the Gaussian KDE at the grid point (gx, gy): a sum of one kernel per data
\* point, which depends on the squared distances only; held as the set of
\* <<squared distance, number of data points at it>>, so that two densities are
\* equal exactly when these sets are
kde_at(data, gx, gy) ==
    LET d2(k) == (data[k][1] * gx[2] - gx[1]) * (data[k][1] * gx[2] - gx[1])
                 + (data[k][2] * gy[2] - gy[1]) * (data[k][2] * gy[2] - gy[1])
        all == {d2(k) : k \in 1..Len(data)}
    IN  {<<d, Cardinality({k \in 1..Len(data) : d2(k) = d})>> : d \in all}

\* lines 51-54: the sigmoid of (density - median) / std.  When all the
\* densities are equal the median is that value and the quotient is 0 / std:
\* NaN when std is exactly 0, else a number; every number the sigmoid returns
\* lies between -1 and 1, which is what is kept of it
normalized_density(density, grid_size, std_is_zero) ==
    [r \in 1..grid_size |-> [c \in 1..grid_size |->
        IF std_is_zero THEN NA ELSE V(<<-1, 1>>)]]

\* whether np.std of the grid's densities can be exactly 0 / can be a number:
\* one value has std 0; several equal values have std 0 or a rounding residue
std_may_be_zero(density, grid_size) ==
    \A r, c \in 1..grid_size : density[r][c] = density[1][1]

std_may_be_positive(density, grid_size) ==
    grid_size > 1

\* evaluate_grid(grid_size): (xx, yy, normalized_density)
evaluate_grid(e, grid_size, std_is_zero) ==
    LET x_grid == linspace(e.x_min, e.x_max, grid_size)
        y_grid == linspace(e.y_min, e.y_max, grid_size)
        xx == [r \in 1..grid_size |-> [c \in 1..grid_size |-> x_grid[c]]]
        yy == [r \in 1..grid_size |-> [c \in 1..grid_size |-> y_grid[r]]]
        density == [r \in 1..grid_size |-> [c \in 1..grid_size |->
                       kde_at(e.data, xx[r][c], yy[r][c])]]
    IN  [kind |-> "tuple", xx |-> xx, yy |-> yy,
         density |-> normalized_density(density, grid_size, std_is_zero),
         kde |-> density]

\* lines 95-109: the two histograms over the denominator's box and H_norm
normalized_histogram2d(num, den, bins) ==
    LET x_range == <<den.x_min, den.x_max>>
        y_range == <<den.y_min, den.y_max>>
        h_num == np_histogram2d(num.data, bins, x_range, y_range)
        h_den == np_histogram2d(den.data, bins, x_range, y_range)
    IN  [kind |-> "locals",
         H_num |-> h_num.H, xedges_num |-> h_num.xedges, yedges_num |-> h_num.yedges,
         H_den |-> h_den.H, xedges_den |-> h_den.xedges, yedges_den |-> h_den.yedges,
         H_norm |-> [i \in 1..bins |-> [j \in 1..bins |->
                       IF h_den.H[i][j] < 1 THEN <<0, 1>>
                       ELSE <<h_num.H[i][j], h_den.H[i][j]>>]]]

-----------------------------------------------------------------------------
(* Inputs of the DensityEstimator model *)

\* points (in halves): the corners of a box, a point on its middle edge, a
\* point half a unit beside the first
PointPool == << <<0, 0>>, <<4, 4>>, <<2, 0>>, <<1, 0>> >>

\* data arrays: one to MaxPoints points, in the order of the pool
DataArrays ==
    {[i \in 1..Len(q) |-> PointPool[q[i]]] :
        q \in {p \in SeqsUpTo(1..Len(PointPool), MaxPoints) :
                 Len(p) >= 1 /\ \A i \in 1..(Len(p) - 1) : p[i] <= p[i + 1]}}

-----------------------------------------------------------------------------
(* DensityEstimator: the state machine *)

DensInit ==
    /\ \E data \in DataArrays : estimator = DensityEstimator_init(data)
    /\ \E data \in DataArrays : numerator = DensityEstimator_init(data)
    /\ dens_call = NoDensCall
    /\ dens_ret = None
    /\ hist_locals = None
    /\ plotted = None
    /\ CrashIdle
    /\ CitiIdle
    /\ TimeIdle

\* estimator.histogram2d(bins=bins, density=density)
Histogram2d ==
    /\ \E bins \in 1..MaxBins, density \in BOOLEAN :
        /\ dens_call' = [op |-> "histogram2d", bins |-> bins, grid_size |-> 0,
                         density |-> density]
        /\ dens_ret' = histogram2d(estimator, bins, density)
    /\ hist_locals' = None
    /\ plotted' = None
    /\ UNCHANGED <<estimator, numerator>>
    /\ UNCHANGED <<crash_vars, citi_vars, time_vars>>

\* estimator.evaluate_grid(grid_size=grid_size)
EvaluateGrid ==
    /\ \E grid_size \in 1..MaxGrid, std_is_zero \in BOOLEAN :
        LET r == evaluate_grid(estimator, grid_size, std_is_zero)
        IN  /\ IF std_is_zero THEN std_may_be_zero(r.kde, grid_size)
                              ELSE std_may_be_positive(r.kde, grid_size)
            /\ dens_call' = [op |-> "evaluate_grid", bins |-> 0,
                             grid_size |-> grid_size, density |-> FALSE]
            /\ dens_ret' = [kind |-> "tuple", xx |-> r.xx, yy |-> r.yy,
                            density |-> r.density]
    /\ hist_locals' = None
    /\ plotted' = None
    /\ UNCHANGED <<estimator, numerator>>
    /\ UNCHANGED <<crash_vars, citi_vars, time_vars>>

\* DensityEstimator.normalized_histogram2d(numerator, estimator, bins): the
\* heatmap is plotted and nothing is returned
NormalizedHistogram2d ==
    /\ \E bins \in 1..MaxBins :
        LET r == normalized_histogram2d(numerator, estimator, bins)
        IN  /\ dens_call' = [op |-> "normalized_histogram2d", bins |-> bins,
                             grid_size |-> 0, density |-> FALSE]
            /\ hist_locals' = r
            /\ plotted' = [kind |-> "heatmap", H |-> r.H_norm,
                           xedges |-> r.xedges_den, yedges |-> r.yedges_den,
                           extent |-> <<estimator.x_min, estimator.x_max,
                                        estimator.y_min, estimator.y_max>>,
                           density |-> TRUE]
            /\ dens_ret' = None
    /\ UNCHANGED <<estimator, numerator>>
    /\ UNCHANGED <<crash_vars, citi_vars, time_vars>>

DensNext ==
    \/ Histogram2d
    \/ EvaluateGrid
    \/ NormalizedHistogram2d

SpecDensity == DensInit /\ [][DensNext]_vars

-----------------------------------------------------------------------------
(* The time bins of PriceCalculator and of the raster, side by side: one   *)
(* minute of the day is given to a calculator and, as the CRASH TIME of    *)
(* the crashes of an aligned dataset, to spatio_temporal_rasterization     *)
(* called with the calculator's time_bin_size.                             *)

\* dt.hour * 60 + dt.minute ranges over the minutes of a day
Minutes == 0..(24 * 60 - 1)

\* the time_bin_size values a calculator is built with: the two defaults and
\* a size that is odd and does not divide the day
CalculatorTimeBinSizes == TimeBinSizes \cup {7}

\* a number below 100 as text, without and with a leading zero
Text1(n) == IF n < 10 THEN <<Digits[n + 1]>>
            ELSE <<Digits[(n \div 10) + 1], Digits[(n % 10) + 1]>>

Text2(n) == <<Digits[(n \div 10) + 1], Digits[(n % 10) + 1]>>

\* the CRASH TIME of a crash at minute m, 'H:MM' as the crash files write it
CrashTimeText(m) == Text1(m \div 60) \o <<":">> \o Text2(m % 60)

\* an aligned dataset of two crashes at minute m, at opposite corners of the
\* stations' box: the df after BikeCrashDataset(path) and citibike_alignment
CrashesAt(m) ==
    LET file == [cols |-> REQUIRED_COLUMNS,
                 rows |-> << PreRow(V(CrashTimeText(m)), V(40), V(0), V(0)),
                             PreRow(V(CrashTimeText(m)), V(40), V(10), V(10)) >>]
        c == [x_center |-> 5, y_center |-> 5,
              stations |-> StationsXY(<< <<-5, -5>>, <<5, 5>> >>)]
    IN  citibike_alignment(crash_init(file).df, c)

TimeInit ==
    /\ \E S \in CalculatorTimeBinSizes : calculator = [time_bin_size |-> S]
    /\ minute \in Minutes
    /\ time_ret = NoTimes
    /\ CrashIdle
    /\ CitiIdle
    /\ DensIdle

\* calculator.get_time_bin_center(calculator.convert_time_to_minutes(dt))
GetTimeBinCenter ==
    /\ LET minutes == convert_time_to_minutes([day |-> 1, minute |-> minute])
       IN  time_ret' = [time_ret EXCEPT
                !.time_center = V(get_time_bin_center2_with(calculator, minutes))]
    /\ UNCHANGED <<calculator, minute>>
    /\ UNCHANGED <<crash_vars, citi_vars, dens_vars>>

\* line 82 of predict_insurance_price: the bin whose rides are the traffic
TrafficBinIndex ==
    /\ LET minutes == convert_time_to_minutes([day |-> 1, minute |-> minute])
       IN  time_ret' = [time_ret EXCEPT
                !.bin_index = V(bin_index_with(calculator, minutes))]
    /\ UNCHANGED <<calculator, minute>>
    /\ UNCHANGED <<crash_vars, citi_vars, dens_vars>>

\* spatio_temporal_rasterization(bins=1, time_bin_size=calculator.time_bin_size)
\* on the crashes at that minute: the time_center values of the raster
RasterTimeCenter ==
    /\ LET r == spatio_temporal_rasterization(CrashesAt(minute), 1,
                                              calculator.time_bin_size, FALSE, FALSE)
       IN  time_ret' = [time_ret EXCEPT
                !.raster = V([exc |-> r.exc,
                              time_centers |-> {r.rows[g].time_center :
                                                    g \in 1..Len(r.rows)}])]
    /\ UNCHANGED <<calculator, minute>>
    /\ UNCHANGED <<crash_vars, citi_vars, dens_vars>>

TimeNext ==
    \/ GetTimeBinCenter
    \/ TrafficBinIndex
    \/ RasterTimeCenter

SpecTimeBins == TimeInit /\ [][TimeNext]_vars

-----------------------------------------------------------------------------
(* Claims about PriceCalculator and CitibikeDataset, checked under SpecCiti *)

PriceReturned == price_call.op = "predict_insurance_price" /\ price_ret.exc = "none"

\* the rides of df_rides whose station on one side is the requested one and
\* whose time on that side falls into the half hour of the request
RidesInBin(id_col, time_col) ==
    {k \in 1..Len(df_rides[1].rows) :
        LET c == df_rides[1].rows[k].cell
        IN  /\ c[id_col] = <<price_call.start_station_id>>
            /\ c[time_col] # NA
            /\ c[time_col][1].minute \div 30 = price_call.started_at.minute \div 30}

Starts == Cardinality(RidesInBin("start_station_id", "started_at"))

Ends == Cardinality(RidesInBin("end_station_id", "ended_at"))

\* the fraction f equals num / den
FracEq(f, num, den) == f[2] # 0 /\ den # 0 /\ f[1] * den = num * f[2]

C7_RiskPerStart ==
    (PriceReturned /\ Starts > 0) =>
        FracEq(price_ret.risk, price_call.predicted_crash_count, Starts)

CitiEnded == citi_pc \in {"done", "raised"}

\* the name ends in .csv, in either case of the letters
C8_CsvName(name) ==
    /\ Len(name) >= 4
    /\ name[Len(name) - 3] = "."
    /\ name[Len(name) - 2] \in {"c", "C"}
    /\ name[Len(name) - 1] \in {"s", "S"}
    /\ name[Len(name)] \in {"v", "V"}

C9_ZipPathLoads ==
    (/\ CitiEnded
     /\ fs.kind = "file"
     /\ fs.file.content.type = "zip"
     /\ \A i \in 1..Len(fs.file.content.members) :
           fs.file.content.members[i].content.type = "csv") =>
        /\ citi_pc = "done"
        /\ df_rides # NA
        /\ Len(df_rides[1].rows) > 0

\* C10: after construction len(df_rides) + len(dropped_rows) is the number of
\* rows of the loaded input, wherever its incomplete rows stand.
C10_RowCountsAddUp ==
    citi_pc = "done" =>
        Len(df_rides[1].rows) + Len(dropped_rows[1].rows) = Len(loaded[1].rows)

\* an input whose first row is incomplete and whose last row is complete
C10_Witness ==
    /\ citi_pc = "done"
    /\ Len(loaded[1].rows) >= 2
    /\ \E col \in loaded[1].cols : loaded[1].rows[1].cell[col] = NA
    /\ \A col \in loaded[1].cols : loaded[1].rows[Len(loaded[1].rows)].cell[col] # NA

\* C11: after a successful construction neither df_rides nor stations holds a
\* missing value in any column, the derived columns started_at, ended_at,
\* ride_duration and ride_duration_normalized included.
C11_NoMissingValues ==
    citi_pc = "done" =>
        /\ \A i \in 1..Len(df_rides[1].rows) : \A col \in df_rides[1].cols :
              df_rides[1].rows[i].cell[col] # NA
        /\ \A i \in 1..Len(stations[1].rows) : \A col \in stations[1].cols :
              stations[1].rows[i].cell[col] # NA

\* the kept rides whose two timestamps parsed
C12_Timed ==
    {i \in 1..Len(df_rides[1].rows) :
        /\ df_rides[1].rows[i].cell["started_at"] # NA
        /\ df_rides[1].rows[i].cell["ended_at"] # NA}

\* ended_at - started_at of kept ride i, in seconds
C12_Seconds(i) ==
    LET c == df_rides[1].rows[i].cell
    IN  60 * (1440 * c["ended_at"][1].day + c["ended_at"][1].minute)
        - 60 * (1440 * c["started_at"][1].day + c["started_at"][1].minute)

RECURSIVE C12_Sum(_)
C12_Sum(I) ==
    IF I = {} THEN 0
    ELSE LET i == CHOOSE j \in I : TRUE IN C12_Seconds(i) + C12_Sum(I \ {i})

\* the sum over the rides of I of (k * seconds - total)^2
RECURSIVE C12_SquaredDeviations(_, _, _)
C12_SquaredDeviations(I, k, total) ==
    IF I = {} THEN 0
    ELSE LET i == CHOOSE j \in I : TRUE
         IN  (k * C12_Seconds(i) - total) * (k * C12_Seconds(i) - total)
             + C12_SquaredDeviations(I \ {i}, k, total)

\* C12: every kept ride's ride_duration is ended_at - started_at in seconds
\* (NaN when a timestamp did not parse), and duration_mean and duration_std are
\* the mean and the sample standard deviation (NaN below two values) of the
\* durations of the rides kept in df_rides; dropped rows do not contribute.
C12_DurationStatistics ==
    citi_pc = "done" =>
        LET k == Cardinality(C12_Timed)
            total == C12_Sum(C12_Timed)
        IN  /\ \A i \in 1..Len(df_rides[1].rows) :
                  IF i \in C12_Timed
                  THEN df_rides[1].rows[i].cell["ride_duration"] = <<C12_Seconds(i)>>
                  ELSE df_rides[1].rows[i].cell["ride_duration"] = NA
            /\ IF k = 0 THEN duration_mean = NA
               ELSE /\ duration_mean # NA
                    /\ FracEq(duration_mean[1], total, k)
            /\ IF k < 2 THEN duration_std = NA
               ELSE /\ duration_std # NA
                    /\ FracEq(duration_std[1],
                              C12_SquaredDeviations(C12_Timed, k, total),
                              k * k * (k - 1))

\* two kept rides of different length, and a dropped row
C12_Witness ==
    /\ citi_pc = "done"
    /\ Cardinality(C12_Timed) >= 2
    /\ duration_std # NA
    /\ duration_std[1][1] > 0
    /\ Len(dropped_rows[1].rows) >= 1

\* the station an id stands for: the number, or the text, written in the file
C13_StationOf(id) ==
    IF Len(id) > 0 /\ id[1] \in {"int64", "float64"} THEN Tail(id)
    ELSE IF Len(id) > 2 /\ SubSeq(id, Len(id) - 1, Len(id)) = <<".", "0">>
         THEN SubSeq(id, 1, Len(id) - 2)
    ELSE id

C13_RidesAt(col, station) ==
    {i \in 1..Len(df_rides[1].rows) :
        C13_StationOf(df_rides[1].rows[i].cell[col][1]) = station}

RECURSIVE C13_SumCounts(_, _)
C13_SumCounts(col, I) ==
    IF I = {} THEN 0
    ELSE LET i == CHOOSE j \in I : TRUE
         IN  stations[1].rows[i].cell[col][1] + C13_SumCounts(col, I \ {i})

\* C13: every station that is the start or the end of a kept ride has exactly
\* one row in stations, whose start_count and end_count are the numbers of kept
\* rides starting and ending there; each count column sums to len(df_rides).
C13_StationCounts ==
    citi_pc = "done" =>
        LET rides == 1..Len(df_rides[1].rows)
            rows == 1..Len(stations[1].rows)
            used == {C13_StationOf(df_rides[1].rows[i].cell[col][1]) :
                        i \in rides, col \in {"start_station_id", "end_station_id"}}
        IN  /\ \A station \in used :
                  LET its == {j \in rows :
                        C13_StationOf(stations[1].rows[j].cell["station_id"][1]) = station}
                  IN  /\ Cardinality(its) = 1
                      /\ \A j \in its :
                          /\ stations[1].rows[j].cell["start_count"][1] =
                                Cardinality(C13_RidesAt("start_station_id", station))
                          /\ stations[1].rows[j].cell["end_count"][1] =
                                Cardinality(C13_RidesAt("end_station_id", station))
            /\ C13_SumCounts("start_count", rows) = Len(df_rides[1].rows)
            /\ C13_SumCounts("end_count", rows) = Len(df_rides[1].rows)

RECURSIVE C14_Sum(_, _)
C14_Sum(col, I) ==
    IF I = {} THEN 0
    ELSE LET i == CHOOSE j \in I : TRUE
         IN  stations[1].rows[i].cell[col][1] + C14_Sum(col, I \ {i})

\* the centre of one axis is the mean of the stations' coordinate, and the
\* centred coordinate (held times the number n of stations) is the coordinate
\* minus the centre
C14_Axis(center, col, centered_col) ==
    LET rows == 1..Len(stations[1].rows)
        n == Len(stations[1].rows)
    IN  IF n = 0 THEN center = NA
        ELSE /\ center # NA
             /\ FracEq(center[1], C14_Sum(col, rows), n)
             /\ \A j \in rows :
                   stations[1].rows[j].cell[centered_col][1] * center[1][2] =
                     n * (stations[1].rows[j].cell[col][1] * center[1][2] - center[1][1])
             /\ C14_Sum(centered_col, rows) = 0

\* C14: x_center and y_center are the means of the stations' x and y, every
\* station has x_centered = x - x_center and y_centered = y - y_center, and the
\* centred coordinates sum to zero on each axis.
C14_CentersAreMeans ==
    citi_pc = "done" =>
        /\ C14_Axis(x_center, "x", "x_centered")
        /\ C14_Axis(y_center, "y", "y_centered")

\* two stations at different latitudes
C14_Witness ==
    /\ citi_pc = "done"
    /\ Len(stations[1].rows) >= 2
    /\ \E j \in 1..Len(stations[1].rows) : stations[1].rows[j].cell["y_centered"][1] # 0

C19_Entries(f) == {f.entries[i] : i \in 1..Len(f.entries)}

C19_ZipName(name) ==
    /\ Len(name) >= 4
    /\ name[Len(name) - 3] = "."
    /\ name[Len(name) - 2] \in {"z", "Z"}
    /\ name[Len(name) - 1] \in {"i", "I"}
    /\ name[Len(name)] \in {"p", "P"}

\* the ride ids held by the readable CSV files among the entries, in order
RECURSIVE C19_RideIds(_)
C19_RideIds(entries) ==
    IF Len(entries) = 0 THEN <<>>
    ELSE LET e == Head(entries)
             rows == e.content.table.rows
         IN  (IF C8_CsvName(e.name) /\ e.content.type = "csv"
              THEN [i \in 1..Len(rows) |-> rows[i]["ride_id"]]
              ELSE <<>>)
             \o C19_RideIds(Tail(entries))

\* one step of the constructor on a directory
C19_Step ==
    /\ \A e \in C19_Entries(fs) \ C19_Entries(fs') :
          \/ /\ C19_ZipName(e.name)
             /\ e.content.type = "zip"
             /\ \A i \in 1..Len(e.content.members) :
                   e.content.members[i] \in C19_Entries(fs')
          \/ \E e2 \in C19_Entries(fs') : e2.name = e.name
    /\ \A e \in C19_Entries(fs) :
          (C19_ZipName(e.name) /\ e.content.type # "zip") => e \in C19_Entries(fs')
    /\ citi_pc = "extract" => citi_pc' \in {"extract", "load"}
    /\ fs' # fs => citi_pc = "extract" /\ df_list = <<>> /\ loaded = NA
    /\ df_list' # df_list => citi_pc = "load" /\ citi_pc' = "load" /\ fs' = fs

\* C19: on a directory every ZIP is visited before any CSV is read; a ZIP is
\* removed only when its extraction into the directory succeeded, a ZIP whose
\* extraction fails stays and does not end the construction; an unreadable CSV
\* is skipped and the readable ones are loaded and concatenated in order.
C19_ZipsThenCsvs ==
    /\ [][C19_Step]_vars
    /\ []((fs.kind = "dir" /\ loaded # NA) =>
            [i \in 1..Len(loaded[1].rows) |-> loaded[1].rows[i].cell["ride_id"]]
              = C19_RideIds(fs.entries))

\* a directory whose archive was extracted and removed, whose unreadable CSV
\* was skipped, and whose extracted CSV was loaded
C19_Witness ==
    /\ citi_pc = "done"
    /\ fs.kind = "dir"
    /\ \A e \in C19_Entries(fs) : ~C19_ZipName(e.name)
    /\ \E e \in C19_Entries(fs) : e.name = NameCCsv
    /\ \E e \in C19_Entries(fs) : C8_CsvName(e.name) /\ e.content.type # "csv"
    /\ Len(loaded[1].rows) = 2

\* a row has a missing value
C20_Incomplete(r) == \E col \in DOMAIN r.cell : r.cell[col] = NA

\* C20: dropped_rows holds exactly the rows of the loaded input with a missing
\* value: every row of dropped_rows has one, every such input row is in
\* dropped_rows, and no ride is both in dropped_rows and in df_rides.
C20_DroppedAreIncomplete ==
    citi_pc = "done" =>
        /\ \A i \in 1..Len(dropped_rows[1].rows) : C20_Incomplete(dropped_rows[1].rows[i])
        /\ \A i \in 1..Len(loaded[1].rows) :
              C20_Incomplete(loaded[1].rows[i]) =>
                 \E j \in 1..Len(dropped_rows[1].rows) :
                    dropped_rows[1].rows[j] = loaded[1].rows[i]
        /\ \A i \in 1..Len(dropped_rows[1].rows) : \A j \in 1..Len(df_rides[1].rows) :
              dropped_rows[1].rows[i].cell["ride_id"] # df_rides[1].rows[j].cell["ride_id"]

\* the station id is the station_id of no row of the stations table
C23_UnknownStation(id) ==
    \A k \in 1..Len(stations[1].rows) : stations[1].rows[k].cell["station_id"] # <<id>>

\* a step that is a call of predict_insurance_price on the constructed dataset
C23_PriceCallStep ==
    /\ citi_pc = "done"
    /\ price_call'.op = "predict_insurance_price"

\* C23: a call of predict_insurance_price with a start_station_id that is in
\* no row of stations raises and returns no price, and every call, raising or
\* not, leaves stations and df_rides as they were.
C23_UnknownStationRaises ==
    [][ C23_PriceCallStep =>
          /\ stations' = stations
          /\ df_rides' = df_rides
          /\ C23_UnknownStation(price_call'.start_station_id) =>
                /\ price_ret'.exc = "IndexError"
                /\ price_ret'.price = NoPrice.price
                /\ price_ret'.risk = NoPrice.risk ]_vars

\* a call for a station that is unknown to a dataset that has stations, with
\* a model that predicts crashes
C23_Witness ==
    /\ price_call.op = "predict_insurance_price"
    /\ citi_pc = "done"
    /\ Len(stations[1].rows) >= 2
    /\ C23_UnknownStation(price_call.start_station_id)
    /\ price_call.predicted_crash_count = 2
    /\ price_ret.exc = "IndexError"

-----------------------------------------------------------------------------
(* Claims about DensityEstimator, checked under SpecDensity *)

\* the fraction f is at most the integer v / less than the integer v
FracLeInt(f, v) == f[1] <= v * f[2]

FracLtInt(f, v) == f[1] < v * f[2]

\* v lies in bin i of the edges: [edge i, edge i+1), the last bin closed
C15_InBin(v, edges, i) ==
    /\ FracLeInt(edges[i], v)
    /\ IF i = Len(edges) - 1 THEN ~FracLtInt(edges[i + 1], v)
       ELSE ~FracLeInt(edges[i + 1], v)

C15_Called == dens_call.op = "histogram2d" /\ ~dens_call.density

\* a B x B array of counts >= 0 with B + 1 edges per axis, in which every data
\* point is counted in exactly one cell
C15_CountsEveryPoint ==
    LET B == dens_call.bins
        data == estimator.data
        H == dens_ret.H
    IN  /\ Len(H) = B /\ \A i \in 1..B : Len(H[i]) = B
        /\ Len(dens_ret.xedges) = B + 1 /\ Len(dens_ret.yedges) = B + 1
        /\ \A i, j \in 1..B : H[i][j] >= 0
        /\ \A k \in 1..Len(data) :
              Cardinality({c \in (1..B) \X (1..B) :
                  /\ C15_InBin(data[k][1], dens_ret.xedges, c[1])
                  /\ C15_InBin(data[k][2], dens_ret.yedges, c[2])}) = 1
        /\ \A i, j \in 1..B :
              H[i][j] = Cardinality({k \in 1..Len(data) :
                  /\ C15_InBin(data[k][1], dens_ret.xedges, i)
                  /\ C15_InBin(data[k][2], dens_ret.yedges, j)})
        /\ SumSeq([i \in 1..B |-> SumSeq(H[i])]) = Len(data)

\* the edges run from lo to hi
C15_Spans(edges, lo, hi) ==
    /\ FracEq(edges[1], lo, 1)
    /\ FracEq(edges[Len(edges)], hi, 1)

\* C15 as stated: histogram2d(bins=B, density=False) returns a B x B count
\* array with B + 1 edges per axis spanning [x_min, x_max] and [y_min, y_max],
\* cells >= 0, every data point counted in exactly one cell, counts summing to
\* the number of points.
C15_EdgesSpanBox ==
    C15_Called =>
        /\ C15_CountsEveryPoint
        /\ C15_Spans(dens_ret.xedges, estimator.x_min, estimator.x_max)
        /\ C15_Spans(dens_ret.yedges, estimator.y_min, estimator.y_max)

\* C15 amended: as stated, but on an axis where all data coincide the edges
\* span [min - 0.5, max + 0.5] (one unit is a half).
C15_EdgesSpanWidenedBox ==
    C15_Called =>
        /\ C15_CountsEveryPoint
        /\ IF estimator.x_min < estimator.x_max
           THEN C15_Spans(dens_ret.xedges, estimator.x_min, estimator.x_max)
           ELSE C15_Spans(dens_ret.xedges, estimator.x_min - 1, estimator.x_max + 1)
        /\ IF estimator.y_min < estimator.y_max
           THEN C15_Spans(dens_ret.yedges, estimator.y_min, estimator.y_max)
           ELSE C15_Spans(dens_ret.yedges, estimator.y_min - 1, estimator.y_max + 1)

\* two bins over data that extend in x, with a point on the last edge, and
\* coincide in y
C15_Witness ==
    /\ C15_Called
    /\ dens_call.bins = 2
    /\ estimator.x_min < estimator.x_max
    /\ estimator.y_min = estimator.y_max
    /\ dens_ret.H[2][2] >= 1

\* C16: evaluate_grid(grid_size=G) returns xx, yy and a density array of shape
\* G x G each, and every density value lies in [-1, 1].
C16_GridInUnitRange ==
    dens_call.op = "evaluate_grid" =>
        LET G == dens_call.grid_size
        IN  /\ Len(dens_ret.xx) = G /\ \A r \in 1..G : Len(dens_ret.xx[r]) = G
            /\ Len(dens_ret.yy) = G /\ \A r \in 1..G : Len(dens_ret.yy[r]) = G
            /\ Len(dens_ret.density) = G
            /\ \A r \in 1..G : Len(dens_ret.density[r]) = G
            /\ \A r, c \in 1..G :
                  /\ dens_ret.density[r][c] # NA
                  /\ dens_ret.density[r][c][1][1] >= -1
                  /\ dens_ret.density[r][c][1][2] <= 1

\* C17: normalized_histogram2d returns the normalized density, the array of
\* the numerator histogram divided by the denominator histogram.
C17_ReturnsNormalized ==
    dens_call.op = "normalized_histogram2d" =>
        /\ dens_ret.kind = "array"
        /\ dens_ret.H = hist_locals.H_norm

\* the numerator's points inside the denominator's bounding box
C18_Inside ==
    {k \in 1..Len(numerator.data) :
        /\ estimator.x_min <= numerator.data[k][1]
        /\ numerator.data[k][1] <= estimator.x_max
        /\ estimator.y_min <= numerator.data[k][2]
        /\ numerator.data[k][2] <= estimator.y_max}

\* C18: both histograms use the same edges over the denominator's bounding
\* box; a cell is 0 when its denominator count is 0 and numerator count /
\* denominator count otherwise; only the numerator points inside the
\* denominator's bounding box are counted.
C18_RatioOverDenominatorBox ==
    dens_call.op = "normalized_histogram2d" =>
        LET B == dens_call.bins
            L == hist_locals
        IN  /\ L.xedges_num = L.xedges_den /\ L.yedges_num = L.yedges_den
            /\ \A i, j \in 1..B :
                  IF L.H_den[i][j] = 0 THEN L.H_norm[i][j][1] = 0
                  ELSE FracEq(L.H_norm[i][j], L.H_num[i][j], L.H_den[i][j])
            /\ plotted.H = L.H_norm
            /\ \A i, j \in 1..B :
                  L.H_num[i][j] = Cardinality({k \in C18_Inside :
                      /\ C15_InBin(numerator.data[k][1], L.xedges_den, i)
                      /\ C15_InBin(numerator.data[k][2], L.yedges_den, j)})

-----------------------------------------------------------------------------
(* Claims about the time bins, checked under SpecTimeBins *)

\* b is the bin of size S that holds the minute m: S * b <= m < S * b + S
C21_BinHolds(b, S, m) == S * b <= m /\ m < S * b + S

\* C21: for a time_bin_size S and a minute m of the day, get_time_bin_center(m)
\* is the time_center the raster gives a crash at minute m, both are the middle
\* S * b + S / 2 of the bin b that holds m (kept times 2), and the bin index
\* that selects the station's traffic is that b.
C21_SameTimeBins ==
    LET S == calculator.time_bin_size
    IN  \E b \in 0..minute :
          /\ C21_BinHolds(b, S, minute)
          /\ time_ret.time_center # NA => time_ret.time_center = <<2 * S * b + S>>
          /\ time_ret.raster # NA =>
                /\ time_ret.raster[1].exc = "none"
                /\ time_ret.raster[1].time_centers = {2 * S * b + S}
          /\ time_ret.bin_index # NA => time_ret.bin_index = <<b>>

\* all three were computed for a minute that is not the start of its bin and
\* lies beyond the bin's middle, with a bin size that does not divide the day
C21_Witness ==
    /\ time_ret.time_center # NA /\ time_ret.raster # NA /\ time_ret.bin_index # NA
    /\ calculator.time_bin_size = 7
    /\ minute = 1439
    /\ time_ret.time_center = <<2 * 1435 + 7>>

====
